---------------------------- MODULE Spec2Model ----------------------------
(***************************************************************************)
(* The in-memory user/order store server (src/unnamed/part_000): two maps  *)
(* and two counters behind one sync.RWMutex, served by concurrently        *)
(* running HTTP handlers.  Every handler is split at the points where it   *)
(* touches shared state (the mutex, the counters, the maps) and where it   *)
(* writes its response.                                                    *)
(*                                                                         *)
(* Strings that the code formats or inspects (account numbers, order ids,  *)
(* path segments) are sequences of one-character strings; other strings    *)
(* are opaque.  Library ID generators (uuid, ksuid) are a source of fresh  *)
(* values: the n-th draw returns the value numbered n.  The clock is a     *)
(* counter of half-second ticks.                                           *)
(***************************************************************************)
EXTENDS Integers, Sequences, FiniteSets, TLC

\* ------------------------------------------------------------------ bounds
NumHandlers == 2      \* handler goroutines that may run at the same time
MaxRequests == 3      \* requests accepted in one run
MaxClock == 1         \* last clock tick

Procs == 1..NumHandlers

\* ----------------------------------------------------------------- strings
EmptyStr == << >>
AccPrefix == <<"A", "C", "C", "-">>
OrdPrefix == <<"O", "R", "D", "-">>
DigitChars == <<"0", "1", "2", "3", "4", "5", "6", "7", "8", "9">>
DigitSet == {DigitChars[i] : i \in 1..10}

DigitChar(d) == DigitChars[d + 1]
DigitVal(c) == CHOOSE d \in 0..9 : DigitChars[d + 1] = c

\* strconv-style decimal rendering of a non-negative integer
RECURSIVE Decimal(_)
Decimal(n) == IF n < 10 THEN <<DigitChar(n)>>
              ELSE Append(Decimal(n \div 10), DigitChar(n % 10))

\* the "0" flag of a fmt verb: pad on the left up to a minimum width
RECURSIVE ZeroPad(_, _)
ZeroPad(s, w) == IF Len(s) >= w THEN s ELSE ZeroPad(<<"0">> \o s, w)

\* the "%8d" verb: the same width without the "0" flag pads with spaces
RECURSIVE SpacePad(_, _)
SpacePad(s, w) == IF Len(s) >= w THEN s ELSE SpacePad(<<" ">> \o s, w)
Sprintf8d(n) == SpacePad(Decimal(n), 8)

\* fmt.Sprintf("%08d", n) for n >= 0
Sprintf08d(n) == ZeroPad(Decimal(n), 8)

\* the number written by a sequence of decimal digits
RECURSIVE ParseDecimal(_)
ParseDecimal(s) == IF s = << >> THEN 0
                   ELSE 10 * ParseDecimal(SubSeq(s, 1, Len(s) - 1)) + DigitVal(s[Len(s)])

\* strings.TrimPrefix-style split of a key into prefix and the rest
HasPrefix(s, pre) == Len(s) >= Len(pre) /\ SubSeq(s, 1, Len(pre)) = pre
Suffix(s, pre) == SubSeq(s, Len(pre) + 1, Len(s))
KeyNumber(s, pre) == ParseDecimal(Suffix(s, pre))

\* ------------------------------------------------- 64-bit integers (int64)
\* an int64/uint64 is its four 16-bit limbs, least significant first; every
\* operation wraps modulo 2^64 as the machine does
HexChars == <<"0", "1", "2", "3", "4", "5", "6", "7", "8", "9",
              "a", "b", "c", "d", "e", "f">>
HexSet == {HexChars[i] : i \in 1..16}

Zero64 == <<0, 0, 0, 0>>
\* int64(n) for 0 <= n < 2^31
Small64(n) == <<n % 65536, n \div 65536, 0, 0>>

Add64c(a, b, c) ==
    LET s1 == a[1] + b[1] + c
        s2 == a[2] + b[2] + s1 \div 65536
        s3 == a[3] + b[3] + s2 \div 65536
        s4 == a[4] + b[4] + s3 \div 65536
    IN <<s1 % 65536, s2 % 65536, s3 % 65536, s4 % 65536>>
Add64(a, b) == Add64c(a, b, 0)
Not64(a) == <<65535 - a[1], 65535 - a[2], 65535 - a[3], 65535 - a[4]>>
Sub64(a, b) == Add64c(a, Not64(b), 1)
Neg64(a) == Sub64(Zero64, a)

\* a * k for 0 <= k <= 32768
MulSmall64(a, k) ==
    LET p1 == a[1] * k
        p2 == a[2] * k + p1 \div 65536
        p3 == a[3] * k + p2 \div 65536
        p4 == a[4] * k + p3 \div 65536
    IN <<p1 % 65536, p2 % 65536, p3 % 65536, p4 % 65536>>

RECURSIVE Pow2(_)
Pow2(k) == IF k = 0 THEN 1 ELSE 2 * Pow2(k - 1)

\* a << n: whole limbs first, then the remaining bits; bits shifted out are lost
ShlLimbs(a, n) == [i \in 1..4 |-> IF i <= n THEN 0 ELSE a[i - n]]
Shl64(a, n) ==
    LET w == ShlLimbs(a, n \div 16)
    IN MulSmall64(<<w[1], w[2], w[3], w[4]>>, Pow2(n % 16))

\* x | y on one limb, bit by bit
RECURSIVE OrLimb(_, _)
OrLimb(x, y) ==
    IF x = 0 THEN y
    ELSE IF y = 0 THEN x
    ELSE (IF x % 2 = 1 \/ y % 2 = 1 THEN 1 ELSE 0) + 2 * OrLimb(x \div 2, y \div 2)
Or64(a, b) == <<OrLimb(a[1], b[1]), OrLimb(a[2], b[2]), OrLimb(a[3], b[3]),
                OrLimb(a[4], b[4])>>

\* the sign bit of an int64
IsNeg64(a) == a[4] >= 32768
\* a < b as unsigned numbers
LtU64(a, b) ==
    \E i \in 1..4 : a[i] < b[i] /\ \A j \in (i + 1)..4 : a[j] = b[j]
\* a < b as signed numbers
Lt64(a, b) ==
    IF IsNeg64(a) # IsNeg64(b) THEN IsNeg64(a) ELSE LtU64(a, b)

\* uint32(a): the low 32 bits
Uint32(a) == <<a[1], a[2], 0, 0>>

\* quotient and remainder of the unsigned a by k, 0 < k <= 32767
DivModSmall64(a, k) ==
    LET c4 == a[4]
        c3 == (c4 % k) * 65536 + a[3]
        c2 == (c3 % k) * 65536 + a[2]
        c1 == (c2 % k) * 65536 + a[1]
    IN [q |-> <<c1 \div k, c2 \div k, c3 \div k, c4 \div k>>, r |-> c1 % k]

\* the digits of n < base^3 in the base, most significant first, none for 0
RECURSIVE DigitsSmall(_, _)
DigitsSmall(n, base) ==
    IF n = 0 THEN << >>
    ELSE Append(DigitsSmall(n \div base, base), HexChars[(n % base) + 1])
\* the digits of the unsigned a in the base, three digits at a time
RECURSIVE DigitsU(_, _)
DigitsU(a, base) ==
    LET cube == base * base * base
        d == DivModSmall64(a, cube)
    IN IF d.q = Zero64 THEN DigitsSmall(d.r, base)
       ELSE DigitsU(d.q, base) \o ZeroPad(DigitsSmall(d.r, base), 3)
\* strconv.FormatUint(a, base), and the %x / %d verbs without flags
FormatUint(a, base) == IF a = Zero64 THEN <<"0">> ELSE DigitsU(a, base)
\* strconv.FormatInt(a, base): a minus sign and the magnitude when negative
FormatInt(a, base) ==
    IF IsNeg64(a) THEN <<"-">> \o FormatUint(Neg64(a), base) ELSE FormatUint(a, base)

\* the int64 written by a decimal literal, given as its digits
RECURSIVE Int64FromDecimal(_)
Int64FromDecimal(ds) ==
    IF Len(ds) <= 3
    THEN Small64(IF ds = << >> THEN 0
                 ELSE IF Len(ds) = 1 THEN ds[1]
                 ELSE IF Len(ds) = 2 THEN 10 * ds[1] + ds[2]
                 ELSE 100 * ds[1] + 10 * ds[2] + ds[3])
    ELSE LET n == Len(ds)
         IN Add64(MulSmall64(Int64FromDecimal(SubSeq(ds, 1, n - 3)), 1000),
                  Small64(100 * ds[n - 2] + 10 * ds[n - 1] + ds[n]))
\* the unsigned number written by hexadecimal digits
RECURSIVE ParseHex64(_)
ParseHex64(s) ==
    IF s = << >> THEN Zero64
    ELSE Add64(MulSmall64(ParseHex64(SubSeq(s, 1, Len(s) - 1)), 16),
               Small64(CHOOSE d \in 0..15 : HexChars[d + 1] = s[Len(s)]))

\* ------------------------------------------------------------------- clock
\* one tick is 500 ms; a timestamp with one-second resolution drops the half;
\* the process starts one second after the Unix epoch, so no reading is zero
UnixMilli(t) == (t + 2) * 500
UnixSecond(t) == UnixMilli(t) \div 1000

\* ------------------------------------------------------------------- state
VARIABLES
    userStore,       \* map accountNumber -> User
    orderStore,      \* map orderId -> Order
    accountCounter,  \* last account number handed out
    orderCounter,    \* last order number handed out
    storeMutex,      \* sync.RWMutex: the writer holding it, the readers holding it
    pc,              \* per handler: position in its handler's steps, 0 when idle
    req,             \* per handler: the request being served
    local,           \* per handler: startTime, key, record, exists
    clock,           \* time.Now(), in ticks
    drawn,           \* values drawn so far from the fresh ID source
    nreq,            \* requests accepted so far
    lastResp,        \* the response written by the step just taken, with its request
    created,         \* history: key -> the create request's body and its 201 response
    carried,         \* history: ID value -> number of response fields that carried it
    allocs,          \* history: keys in the order the generators returned them
    touched,         \* history, per handler: its request changed a counter or a map
    known,           \* history, per handler: keys already answered 201 when it started
    probe,           \* a counter value and the keys the two generators format from it
    fixture,         \* the fixture server (src/main.go): its last response and history
    idProbe          \* a clock reading and the IDs the fixture's generators make from it

vars == <<userStore, orderStore, accountCounter, orderCounter, storeMutex, pc, req,
          local, clock, drawn, nreq, lastResp, created, carried, allocs, touched, known,
          probe, fixture, idProbe>>

\* ------------------------------------------------------- value generators
\* uuid.NewString() / uuid.New().String(): the n-th value of the fresh source
Uuid(n) == [lib |-> "uuid", n |-> n]
\* ksuid.New().String()
Ksuid(n) == [lib |-> "ksuid", n |-> n]

generateUUIDV4(n) == Uuid(n)
generateKSUID(n) == Ksuid(n)
\* a request id made once and reused
generateRequestIDOnce(n) == [prefix |-> "REQ-", uuid |-> Uuid(0)]
generateRequestID(n) == [prefix |-> "REQ-", uuid |-> Uuid(n)]
\* "TXN-" and the first 16 characters of a uuid string
generateTransactionHash(n) == [prefix |-> "TXN-", head16 |-> Uuid(n)]

\* a ULID whose entropy comes from one source shared by all calls
generateULIDSharedSource(t) == [ms |-> UnixMilli(t), seed |-> drawn]
\* ulid.MustNew(ulid.Timestamp(now), entropy seeded with now.UnixNano())
generateULID(t) == [ms |-> UnixMilli(t), seed |-> t]

\* time.Now().UTC().Format(time.RFC3339): whole seconds, zone designator Z
getServerTimestamp(t) == [sec |-> UnixSecond(t), frac |-> 0, zone |-> "Z"]

\* format to "2006-01-02 15:04:05", dateparse.ParseAny, format RFC3339Nano:
\* the sub-second part is lost in the first formatting, the zone is UTC
parseAndFormatTimestamp(t) == [sec |-> UnixSecond(t), frac |-> 0, zone |-> "Z"]

\* time.Now().UTC() as a time.Time
TimeNowUTC(t) == [sec |-> UnixSecond(t), frac |-> UnixMilli(t) % 1000, zone |-> "Z"]

\* time.Since(startTime).Milliseconds()
SinceMs(start, t) == UnixMilli(t) - UnixMilli(start)

\* ----------------------------------------------------------- data models
ZeroTime == [sec |-> 0, frac |-> 0, zone |-> "Z"]
NoUuid == [lib |-> "", n |-> 0]

ZeroUser ==
    [accountNumber |-> EmptyStr, userId |-> NoUuid, name |-> "", email |-> "",
     sessionId |-> NoUuid, uuidV4 |-> NoUuid, ulidId |-> [ms |-> 0, seed |-> 0],
     ksuidId |-> NoUuid, createdAt |-> ZeroTime, parsedTimestamp |-> ZeroTime,
     requestId |-> [prefix |-> "", uuid |-> NoUuid], processingTimeMs |-> 0,
     serverTimestamp |-> ZeroTime]

ZeroOrder ==
    [orderId |-> EmptyStr, accountNumber |-> EmptyStr, amount |-> 0, status |-> "",
     items |-> << >>, sessionId |-> NoUuid, uuidV4 |-> NoUuid,
     ulidId |-> [ms |-> 0, seed |-> 0], ksuidId |-> NoUuid, createdAt |-> ZeroTime,
     parsedTimestamp |-> ZeroTime, requestId |-> [prefix |-> "", uuid |-> NoUuid],
     processingTimeMs |-> 0, transactionHash |-> [prefix |-> "", head16 |-> NoUuid],
     serverTimestamp |-> ZeroTime]

Health == [status |-> "ok"]
ErrorResponse(msg) == [error |-> msg]
\* http.Error writes the message as a text/plain line
PlainError(msg) == [text |-> msg]

\* ----------------------------------------------------------------- inputs
AccountArgs == {EmptyStr} \cup {AccPrefix \o Sprintf08d(i) : i \in 1..2}
OrderArgs == {EmptyStr} \cup {OrdPrefix \o Sprintf08d(i) : i \in 1..2}

\* a request body after json Decode into CreateUserRequest: an error, or the
\* struct with absent fields left at their zero values
UserBody(n, e) == [decodeErr |-> FALSE, name |-> n, email |-> e]
UserBodies ==
    {[decodeErr |-> TRUE, name |-> "", email |-> ""],
     UserBody("", "a@x.com"), UserBody("Alice", ""), UserBody("", ""),
     UserBody("Alice", "a@x.com"), UserBody("Bob", "b@x.com")}

\* the same for CreateOrderRequest: every valid body over the two accounts, and
\* bodies that fail one check each, for a known-format and an empty account
OrderBody(a, m, i) == [decodeErr |-> FALSE, accountNumber |-> a, amount |-> m, items |-> i]
OrderBodies ==
    {[decodeErr |-> TRUE, accountNumber |-> EmptyStr, amount |-> 0, items |-> << >>]}
    \cup {OrderBody(a, m, <<"Laptop">>) : a \in AccountArgs \ {EmptyStr}, m \in {5, 7}}
    \cup {OrderBody(EmptyStr, 5, <<"Laptop">>),
          OrderBody(AccPrefix \o Sprintf08d(1), 0, <<"Laptop">>),
          OrderBody(AccPrefix \o Sprintf08d(2), -1, <<"Laptop">>),
          OrderBody(AccPrefix \o Sprintf08d(1), 5, << >>)}
NoBody == [decodeErr |-> TRUE]

Methods == {"GET", "POST"}

\* ------------------------------------------------------------------ state
Shared == <<userStore, orderStore, accountCounter, orderCounter>>

NoReq == [route |-> "", method |-> "", body |-> NoBody, arg |-> EmptyStr]
NoLocal == [startTime |-> 0, key |-> EmptyStr, rec |-> [none |-> TRUE], exists |-> FALSE]
NoProbe == [n |-> 0, steps |-> 0, accountNumber |-> EmptyStr, orderId |-> EmptyStr]
NoFixtureResp == [route |-> "", method |-> "", status |-> 0, headers |-> << >>,
                  body |-> [none |-> TRUE]]
\* the zone of a process started with TZ=UTC: name, abbreviation, seconds east
ZoneUTC == [name |-> "UTC", abbr |-> <<"U", "T", "C">>, offset |-> 0]
NoFixture == [n |-> 0, drawn |-> 0, resp |-> NoFixtureResp, first |-> << >>,
              zone |-> ZoneUTC]
NoIds == [now |-> [sec |-> Zero64, msec |-> 0], calls |-> 0,
          snowflake |-> EmptyStr, objectId |-> EmptyStr]
NoResp == [req |-> NoReq, known |-> {}, touched |-> FALSE, exists |-> FALSE,
           status |-> 0, ctype |-> "", body |-> [none |-> TRUE]]

InitStore ==
    /\ userStore = << >>
    /\ orderStore = << >>
    /\ accountCounter = 0
    /\ orderCounter = 0
    /\ storeMutex = [writer |-> 0, readers |-> {}]
    /\ pc = [p \in Procs |-> 0]
    /\ req = [p \in Procs |-> NoReq]
    /\ local = [p \in Procs |-> NoLocal]
    /\ clock = 0
    /\ drawn = 0
    /\ nreq = 0
    /\ lastResp = NoResp
    /\ created = << >>
    /\ carried = << >>
    /\ allocs = << >>
    /\ touched = [p \in Procs |-> FALSE]
    /\ known = [p \in Procs |-> {}]
\* neither the key probe nor the fixture server is running
Aside == probe = NoProbe /\ fixture = NoFixture /\ idProbe = NoIds
Init == InitStore /\ Aside

\* --------------------------------------------------------------- the mutex
\* a Lock() that never waits
CanLockUnguarded(m) == TRUE
\* Lock() returns when no writer and no reader holds the mutex
CanLock(m) == m.writer = 0 /\ m.readers = {}
\* RLock() returns when no writer holds the mutex
CanRLock(m) == m.writer = 0
\* a Lock() call left out: the mutex stays as it was
LockSkipped(m, p) == m
Lock(m, p) == [m EXCEPT !.writer = p]
\* an Unlock() call left out: the writer keeps the mutex
UnlockHeld(m, p) == m
Unlock(m, p) == [m EXCEPT !.writer = IF @ = p THEN 0 ELSE @]
RLock(m, p) == [m EXCEPT !.readers = @ \cup {p}]
\* an RUnlock() call left out: the reader keeps the mutex
RUnlockHeld(m, p) == m
RUnlock(m, p) == [m EXCEPT !.readers = @ \ {p}]

\* ----------------------------------------------------------- map helpers
\* a lookup whose value is dropped: the handler goes on with the zero record
MapGetZero(m, k, zero) == zero
\* an insert into a copy of the map: the shared map stays as it was
MapPutLost(m, k, v) == m
\* a lookup whose result is not used: every key is taken as present
MapHasAlways(m, k) == TRUE
\* v, exists := m[k]
MapHas(m, k) == k \in DOMAIN m
MapGet(m, k, zero) == IF k \in DOMAIN m THEN m[k] ELSE zero
\* m[k] = v
MapPut(m, k, v) == [x \in DOMAIN m \cup {k} |-> IF x = k THEN v ELSE m[x]]
\* history: h with v recorded for k
Remember(h, k, v) == [x \in DOMAIN h \cup {k} |-> IF x = k THEN v ELSE h[x]]
\* one more occurrence of each value of ids
Carry(bag, ids) ==
    [x \in DOMAIN bag \cup {ids[i] : i \in DOMAIN ids} |->
        (IF x \in DOMAIN bag THEN bag[x] ELSE 0)
        + Cardinality({i \in DOMAIN ids : ids[i] = x})]

\* ------------------------------------------------------ handler structure
\* the steps of each handler that touch shared state or write the response,
\* in program order
CreateUserSteps == <<"genLock", "genReturn", "build", "insert", "unlock", "respond">>
\* the order id taken before the account is looked up
CreateOrderStepsIdFirst == <<"genLock", "genReturn", "check", "checked", "build", "insert",
                             "unlock", "respond">>
\* the order built before the account is looked up
CreateOrderStepsBuildFirst == <<"genLock", "genReturn", "build", "check", "checked",
                                "insert", "unlock", "respond">>
CreateOrderSteps == <<"check", "checked", "genLock", "genReturn", "build", "insert",
                      "unlock", "respond">>
GetUserSteps == <<"lookup", "found", "respond">>
GetOrderSteps == <<"lookup", "found", "respond">>

Steps(route) ==
    CASE route = "/users" -> CreateUserSteps
      [] route = "/orders" -> CreateOrderSteps
      [] route = "/users/" -> GetUserSteps
      [] route = "/orders/" -> GetOrderSteps
      [] OTHER -> << >>

At(p, route, step) ==
    /\ pc[p] > 0
    /\ req[p].route = route
    /\ Steps(route)[pc[p]] = step

\* what a handler answers before it goes on: status 0 means it goes on
Proceed == [status |-> 0, ctype |-> "", body |-> [none |-> TRUE]]
\* http.Error(w, "method not allowed", http.StatusMethodNotAllowed)
MethodNotAllowed ==
    [status |-> 405, ctype |-> "text/plain; charset=utf-8",
     body |-> PlainError("method not allowed")]
\* Content-Type application/json, writeJSON(w, status, ErrorResponse{Error: msg})
JsonError(status, msg) ==
    [status |-> status, ctype |-> "application/json", body |-> ErrorResponse(msg)]
JsonOK(status, v) == [status |-> status, ctype |-> "application/json", body |-> v]

\* req.Name == "" || req.Email == ""
UserFieldsMissing(b) == b.name = "" \/ b.email = ""
\* the amount left unchecked
OrderFieldsMissingNoAmount(b) == b.accountNumber = EmptyStr \/ Len(b.items) = 0
\* req.AccountNumber == "" || req.Amount <= 0 || len(req.Items) == 0
OrderFieldsMissing(b) == b.accountNumber = EmptyStr \/ b.amount <= 0 \/ Len(b.items) = 0

\* POST /users up to the first return
CreateUserChecks(rq) ==
    IF rq.method # "POST" THEN MethodNotAllowed
    ELSE IF rq.body.decodeErr THEN JsonError(400, "invalid request body")
    ELSE IF UserFieldsMissing(rq.body) THEN JsonError(400, "name and email are required")
    ELSE Proceed

\* POST /orders up to the existence check
CreateOrderChecks(rq) ==
    IF rq.method # "POST" THEN MethodNotAllowed
    ELSE IF rq.body.decodeErr THEN JsonError(400, "invalid request body")
    ELSE IF OrderFieldsMissing(rq.body)
         THEN JsonError(400, "accountNumber, amount, and items are required")
    ELSE Proceed

\* the lookup made for an empty path segment too
GetChecksNoEmpty(rq, msg) == IF rq.method # "GET" THEN MethodNotAllowed ELSE Proceed
\* GET /users/{accountNumber} and GET /orders/{orderId} up to the lookup
GetChecks(rq, msg) ==
    IF rq.method # "GET" THEN MethodNotAllowed
    ELSE IF rq.arg = EmptyStr THEN JsonError(400, msg)
    ELSE Proceed

\* ------------------------------------------------------------ the records
\* the key formatted from the number after the counter's
generateAccountNumberNext(counter) == AccPrefix \o Sprintf08d(counter + 1)
generateAccountNumber(counter) == AccPrefix \o Sprintf08d(counter)
\* the key formatted without the counter: every order gets the first key
generateOrderIDFirst(counter) == OrdPrefix \o Sprintf08d(1)
generateOrderID(counter) == OrdPrefix \o Sprintf08d(counter)

\* the User with its key and stable fields only: the noisy fields not yet filled in
NewUserStableOnly(key, b, start, t, d) ==
    [ZeroUser EXCEPT !.accountNumber = key, !.name = b.name, !.email = b.email]
\* the User literal of POST /users; d is the number of values drawn so far
NewUser(key, b, start, t, d) ==
    [accountNumber |-> key,
     userId |-> Uuid(d + 1),
     name |-> b.name,
     email |-> b.email,
     sessionId |-> Uuid(d + 2),
     uuidV4 |-> generateUUIDV4(d + 3),
     ulidId |-> generateULID(t),
     ksuidId |-> generateKSUID(d + 4),
     createdAt |-> TimeNowUTC(t),
     parsedTimestamp |-> parseAndFormatTimestamp(t),
     requestId |-> generateRequestID(d + 5),
     processingTimeMs |-> SinceMs(start, t),
     serverTimestamp |-> getServerTimestamp(t)]

\* the Order literal of POST /orders
NewOrder(key, b, start, t, d) ==
    [orderId |-> key,
     accountNumber |-> b.accountNumber,
     amount |-> b.amount,
     status |-> "PENDING",
     items |-> b.items,
     sessionId |-> Uuid(d + 1),
     uuidV4 |-> generateUUIDV4(d + 2),
     ulidId |-> generateULID(t),
     ksuidId |-> generateKSUID(d + 3),
     createdAt |-> TimeNowUTC(t),
     parsedTimestamp |-> parseAndFormatTimestamp(t),
     requestId |-> generateRequestID(d + 4),
     processingTimeMs |-> SinceMs(start, t),
     transactionHash |-> generateTransactionHash(d + 5),
     serverTimestamp |-> getServerTimestamp(t)]

\* a GET that also stamps createdAt anew
RegenerateCreatedAtToo(rec, start, t, d) ==
    [rec EXCEPT
        !.sessionId = Uuid(d + 1),
        !.uuidV4 = generateUUIDV4(d + 2),
        !.ulidId = generateULID(t),
        !.ksuidId = generateKSUID(d + 3),
        !.createdAt = TimeNowUTC(t),
        !.parsedTimestamp = parseAndFormatTimestamp(t),
        !.requestId = generateRequestID(d + 4),
        !.processingTimeMs = SinceMs(start, t),
        !.serverTimestamp = getServerTimestamp(t)]
\* a GET that returns the stored record as it is
RegenerateNothing(rec, start, t, d) == rec
\* a GET that leaves the stored session id in its copy
RegenerateKeepSession(rec, start, t, d) ==
    [rec EXCEPT
        !.uuidV4 = generateUUIDV4(d + 2),
        !.ulidId = generateULID(t),
        !.ksuidId = generateKSUID(d + 3),
        !.parsedTimestamp = parseAndFormatTimestamp(t),
        !.requestId = generateRequestID(d + 4),
        !.processingTimeMs = SinceMs(start, t),
        !.serverTimestamp = getServerTimestamp(t)]
\* the assignments a GET makes to its copy of the stored record
Regenerate(rec, start, t, d) ==
    [rec EXCEPT
        !.sessionId = Uuid(d + 1),
        !.uuidV4 = generateUUIDV4(d + 2),
        !.ulidId = generateULID(t),
        !.ksuidId = generateKSUID(d + 3),
        !.parsedTimestamp = parseAndFormatTimestamp(t),
        !.requestId = generateRequestID(d + 4),
        !.processingTimeMs = SinceMs(start, t),
        !.serverTimestamp = getServerTimestamp(t)]

\* the ID fields of a record that come from the fresh source on every response
ResponseIds(rec) == <<rec.sessionId, rec.uuidV4, rec.ksuidId, rec.requestId>>

\* ------------------------------------------------------- request plumbing
UserRequests ==
    {[route |-> "/users", method |-> "POST", body |-> b, arg |-> EmptyStr] : b \in UserBodies}
    \cup {[route |-> "/users", method |-> "GET", body |-> NoBody, arg |-> EmptyStr]}
OrderRequests ==
    {[route |-> "/orders", method |-> "POST", body |-> b, arg |-> EmptyStr] : b \in OrderBodies}
    \cup {[route |-> "/orders", method |-> "GET", body |-> NoBody, arg |-> EmptyStr]}
GetUserRequests ==
    {[route |-> "/users/", method |-> m, body |-> NoBody, arg |-> a] :
        m \in Methods, a \in AccountArgs}
GetOrderRequests ==
    {[route |-> "/orders/", method |-> m, body |-> NoBody, arg |-> a] :
        m \in Methods, a \in OrderArgs}
HealthRequests ==
    {[route |-> "/health", method |-> m, body |-> NoBody, arg |-> EmptyStr] : m \in Methods}

\* the response v to request rq of handler p, as the client receives it
Written(rq, kn, tch, ex, v) ==
    [req |-> rq, known |-> kn, touched |-> tch, exists |-> ex,
     status |-> v.status, ctype |-> v.ctype, body |-> v.body]

\* a step that writes no response
Silent == lastResp' = NoResp

\* the request ends in the handler's first straight-line part
Reject(p, rq, v) ==
    /\ lastResp' = Written(rq, DOMAIN created, FALSE, FALSE, v)
    /\ UNCHANGED <<pc, req, local, known>>

\* the handler goes on to its first step on shared state; startTime := time.Now()
Begin(p, rq) ==
    /\ pc' = [pc EXCEPT ![p] = 1]
    /\ req' = [req EXCEPT ![p] = rq]
    /\ local' = [local EXCEPT ![p] = [NoLocal EXCEPT !.startTime = clock]]
    /\ known' = [known EXCEPT ![p] = DOMAIN created]
    /\ Silent

\* net/http serves each request on a goroutine of its own; the goroutines are
\* interchangeable, so a new request is given to the first idle one
Accept(p, rq, v) ==
    /\ \A q \in Procs : q < p => pc[q] # 0
    /\ nreq < MaxRequests
    /\ nreq' = nreq + 1
    /\ IF v.status # 0 THEN Reject(p, rq, v) ELSE Begin(p, rq)
    /\ touched' = [touched EXCEPT ![p] = FALSE]
    /\ UNCHANGED <<probe, fixture, idProbe, userStore, orderStore, accountCounter, orderCounter, storeMutex,
                   clock, drawn, created, carried, allocs>>

Goto(p) ==
    /\ pc' = [pc EXCEPT ![p] = @ + 1]
    /\ UNCHANGED <<req, known, nreq>>

\* the handler returns after writing v
Return(p, v) ==
    /\ lastResp' = Written(req[p], known[p], touched[p], local[p].exists, v)
    /\ pc' = [pc EXCEPT ![p] = 0]
    /\ req' = [req EXCEPT ![p] = NoReq]
    /\ local' = [local EXCEPT ![p] = NoLocal]
    /\ known' = [known EXCEPT ![p] = {}]
    /\ UNCHANGED nreq

\* history: this step of p changed a counter or a map
Touch(p) ==
    touched' = [touched EXCEPT ![p] = IF pc'[p] = 0 THEN FALSE ELSE @ \/ Shared' # Shared]

\* ------------------------------------------------------------ POST /users
CreateUserStart(p) ==
    /\ pc[p] = 0
    /\ \E rq \in UserRequests : Accept(p, rq, CreateUserChecks(rq))

\* generateAccountNumber: Lock, accountCounter++
GenAccountLock(p) ==
    /\ At(p, "/users", "genLock")
    /\ CanLock(storeMutex)
    /\ storeMutex' = Lock(storeMutex, p)
    /\ accountCounter' = accountCounter + 1
    /\ Goto(p)
    /\ Silent
    /\ UNCHANGED <<probe, fixture, idProbe, userStore, orderStore, orderCounter, local, clock, drawn, created,
                   carried, allocs>>
    /\ Touch(p)

\* generateAccountNumber: return Sprintf(...), deferred Unlock
GenAccountReturn(p) ==
    /\ At(p, "/users", "genReturn")
    /\ local' = [local EXCEPT ![p].key = generateAccountNumber(accountCounter)]
    /\ allocs' = Append(allocs, local'[p].key)
    /\ storeMutex' = Unlock(storeMutex, p)
    /\ Goto(p)
    /\ Silent
    /\ UNCHANGED <<probe, fixture, idProbe, userStore, orderStore, accountCounter, orderCounter, clock, drawn,
                   created, carried>>
    /\ Touch(p)

\* the rest of the User literal
CreateUserBuild(p) ==
    /\ At(p, "/users", "build")
    /\ local' = [local EXCEPT ![p].rec =
                    NewUser(local[p].key, req[p].body, local[p].startTime, clock, drawn)]
    /\ drawn' = drawn + 5
    /\ Goto(p)
    /\ Silent
    /\ UNCHANGED <<probe, fixture, idProbe, userStore, orderStore, accountCounter, orderCounter, storeMutex,
                   clock, created, carried, allocs>>
    /\ Touch(p)

\* storeMutex.Lock(); userStore[user.AccountNumber] = user
CreateUserInsert(p) ==
    /\ At(p, "/users", "insert")
    /\ CanLock(storeMutex)
    /\ storeMutex' = Lock(storeMutex, p)
    /\ userStore' = MapPut(userStore, local[p].rec.accountNumber, local[p].rec)
    /\ Goto(p)
    /\ Silent
    /\ UNCHANGED <<probe, fixture, idProbe, orderStore, accountCounter, orderCounter, local, clock, drawn,
                   created, carried, allocs>>
    /\ Touch(p)

\* storeMutex.Unlock()
CreateUserUnlock(p) ==
    /\ At(p, "/users", "unlock")
    /\ storeMutex' = Unlock(storeMutex, p)
    /\ Goto(p)
    /\ Silent
    /\ UNCHANGED <<probe, fixture, idProbe, userStore, orderStore, accountCounter, orderCounter, local, clock,
                   drawn, created, carried, allocs>>
    /\ Touch(p)

\* writeJSON(w, http.StatusCreated, user)
CreateUserRespond(p) ==
    /\ At(p, "/users", "respond")
    /\ Return(p, JsonOK(201, local[p].rec))
    /\ created' = Remember(created, local[p].rec.accountNumber,
                       [req |-> req[p].body, resp |-> local[p].rec])
    /\ carried' = Carry(carried, ResponseIds(local[p].rec))
    /\ UNCHANGED <<probe, fixture, idProbe, userStore, orderStore, accountCounter, orderCounter, storeMutex, clock,
                   drawn, allocs>>
    /\ Touch(p)

\* ------------------------------------------------------- GET /users/{key}
GetUserStart(p) ==
    /\ pc[p] = 0
    /\ \E rq \in GetUserRequests : Accept(p, rq, GetChecks(rq, "account number required"))

\* storeMutex.RLock(); user, exists := userStore[accountNumber]
GetUserLookup(p) ==
    /\ At(p, "/users/", "lookup")
    /\ CanRLock(storeMutex)
    /\ storeMutex' = RLock(storeMutex, p)
    /\ local' = [local EXCEPT ![p].rec = MapGet(userStore, req[p].arg, ZeroUser),
                              ![p].exists = MapHas(userStore, req[p].arg)]
    /\ Goto(p)
    /\ Silent
    /\ UNCHANGED <<probe, fixture, idProbe, userStore, orderStore, accountCounter, orderCounter, clock, drawn,
                   created, carried, allocs>>
    /\ Touch(p)

\* storeMutex.RUnlock(); if !exists { 404 }
GetUserFound(p) ==
    /\ At(p, "/users/", "found")
    /\ storeMutex' = RUnlock(storeMutex, p)
    /\ IF local[p].exists
       THEN Goto(p) /\ Silent /\ UNCHANGED local
       ELSE Return(p, JsonError(404, "user not found"))
    /\ UNCHANGED <<probe, fixture, idProbe, userStore, orderStore, accountCounter, orderCounter, clock, drawn,
                   created, carried, allocs>>
    /\ Touch(p)

\* fresh noisy fields on the copy, writeJSON(w, http.StatusOK, user)
GetUserRespond(p) ==
    /\ At(p, "/users/", "respond")
    /\ LET user == Regenerate(local[p].rec, local[p].startTime, clock, drawn)
       IN /\ Return(p, JsonOK(200, user))
          /\ carried' = Carry(carried, ResponseIds(user))
    /\ drawn' = drawn + 4
    /\ UNCHANGED <<probe, fixture, idProbe, userStore, orderStore, accountCounter, orderCounter, storeMutex, clock,
                   created, allocs>>
    /\ Touch(p)

\* ------------------------------------------------------------ GET /health
\* a health check that reports "ok" only once a user is stored
HealthChecksByStore(rq) ==
    IF rq.method # "GET" THEN MethodNotAllowed
    ELSE JsonOK(200, [status |-> IF userStore = << >> THEN "empty" ELSE "ok"])
\* the /health handler: method check, then Health{Status: "ok"}
HealthChecks(rq) == IF rq.method # "GET" THEN MethodNotAllowed ELSE JsonOK(200, Health)

HealthRequest(p) ==
    /\ pc[p] = 0
    /\ \E rq \in HealthRequests : Accept(p, rq, HealthChecks(rq))

\* ------------------------------------------------------------------ clock
Tick ==
    /\ clock < MaxClock
    /\ clock' = clock + 1
    /\ Silent
    /\ UNCHANGED <<probe, fixture, idProbe, userStore, orderStore, accountCounter, orderCounter, storeMutex,
                   pc, req, local, drawn, nreq, created, carried, allocs, touched, known>>

\* ----------------------------------------------------------- POST /orders
CreateOrderStart(p) ==
    /\ pc[p] = 0
    /\ \E rq \in OrderRequests : Accept(p, rq, CreateOrderChecks(rq))

\* storeMutex.RLock(); _, exists := userStore[req.AccountNumber]
CreateOrderCheck(p) ==
    /\ At(p, "/orders", "check")
    /\ CanRLock(storeMutex)
    /\ storeMutex' = RLock(storeMutex, p)
    /\ local' = [local EXCEPT ![p].exists = MapHas(userStore, req[p].body.accountNumber)]
    /\ Goto(p)
    /\ Silent
    /\ UNCHANGED <<probe, fixture, idProbe, userStore, orderStore, accountCounter, orderCounter, clock, drawn,
                   created, carried, allocs>>
    /\ Touch(p)

\* storeMutex.RUnlock(); if !exists { 404 }
CreateOrderChecked(p) ==
    /\ At(p, "/orders", "checked")
    /\ storeMutex' = RUnlock(storeMutex, p)
    /\ IF local[p].exists
       THEN Goto(p) /\ Silent /\ UNCHANGED local
       ELSE Return(p, JsonError(404, "account not found"))
    /\ UNCHANGED <<probe, fixture, idProbe, userStore, orderStore, accountCounter, orderCounter, clock, drawn,
                   created, carried, allocs>>
    /\ Touch(p)

\* generateOrderID: Lock, orderCounter++
GenOrderLock(p) ==
    /\ At(p, "/orders", "genLock")
    /\ CanLock(storeMutex)
    /\ storeMutex' = Lock(storeMutex, p)
    /\ orderCounter' = orderCounter + 1
    /\ Goto(p)
    /\ Silent
    /\ UNCHANGED <<probe, fixture, idProbe, userStore, orderStore, accountCounter, local, clock, drawn,
                   created, carried, allocs>>
    /\ Touch(p)

\* generateOrderID: return Sprintf(...), deferred Unlock
GenOrderReturn(p) ==
    /\ At(p, "/orders", "genReturn")
    /\ local' = [local EXCEPT ![p].key = generateOrderID(orderCounter)]
    /\ allocs' = Append(allocs, local'[p].key)
    /\ storeMutex' = Unlock(storeMutex, p)
    /\ Goto(p)
    /\ Silent
    /\ UNCHANGED <<probe, fixture, idProbe, userStore, orderStore, accountCounter, orderCounter, clock, drawn,
                   created, carried>>
    /\ Touch(p)

\* the rest of the Order literal
CreateOrderBuild(p) ==
    /\ At(p, "/orders", "build")
    /\ local' = [local EXCEPT ![p].rec =
                    NewOrder(local[p].key, req[p].body, local[p].startTime, clock, drawn)]
    /\ drawn' = drawn + 5
    /\ Goto(p)
    /\ Silent
    /\ UNCHANGED <<probe, fixture, idProbe, userStore, orderStore, accountCounter, orderCounter, storeMutex,
                   clock, created, carried, allocs>>
    /\ Touch(p)

\* storeMutex.Lock(); orderStore[order.OrderID] = order
CreateOrderInsert(p) ==
    /\ At(p, "/orders", "insert")
    /\ CanLock(storeMutex)
    /\ storeMutex' = Lock(storeMutex, p)
    /\ orderStore' = MapPut(orderStore, local[p].rec.orderId, local[p].rec)
    /\ Goto(p)
    /\ Silent
    /\ UNCHANGED <<probe, fixture, idProbe, userStore, accountCounter, orderCounter, local, clock, drawn,
                   created, carried, allocs>>
    /\ Touch(p)

\* storeMutex.Unlock()
CreateOrderUnlock(p) ==
    /\ At(p, "/orders", "unlock")
    /\ storeMutex' = Unlock(storeMutex, p)
    /\ Goto(p)
    /\ Silent
    /\ UNCHANGED <<probe, fixture, idProbe, userStore, orderStore, accountCounter, orderCounter, local, clock,
                   drawn, created, carried, allocs>>
    /\ Touch(p)

\* writeJSON(w, http.StatusCreated, order)
CreateOrderRespond(p) ==
    /\ At(p, "/orders", "respond")
    /\ Return(p, JsonOK(201, local[p].rec))
    /\ created' = Remember(created, local[p].rec.orderId,
                       [req |-> req[p].body, resp |-> local[p].rec])
    /\ carried' = Carry(carried, ResponseIds(local[p].rec))
    /\ UNCHANGED <<probe, fixture, idProbe, userStore, orderStore, accountCounter, orderCounter, storeMutex, clock,
                   drawn, allocs>>
    /\ Touch(p)

\* ------------------------------------------------------ GET /orders/{key}
GetOrderStart(p) ==
    /\ pc[p] = 0
    /\ \E rq \in GetOrderRequests : Accept(p, rq, GetChecks(rq, "order id required"))

\* storeMutex.RLock(); order, exists := orderStore[orderId]
GetOrderLookup(p) ==
    /\ At(p, "/orders/", "lookup")
    /\ CanRLock(storeMutex)
    /\ storeMutex' = RLock(storeMutex, p)
    /\ local' = [local EXCEPT ![p].rec = MapGet(orderStore, req[p].arg, ZeroOrder),
                              ![p].exists = MapHas(orderStore, req[p].arg)]
    /\ Goto(p)
    /\ Silent
    /\ UNCHANGED <<probe, fixture, idProbe, userStore, orderStore, accountCounter, orderCounter, clock, drawn,
                   created, carried, allocs>>
    /\ Touch(p)

\* storeMutex.RUnlock(); if !exists { 404 }
GetOrderFound(p) ==
    /\ At(p, "/orders/", "found")
    /\ storeMutex' = RUnlock(storeMutex, p)
    /\ IF local[p].exists
       THEN Goto(p) /\ Silent /\ UNCHANGED local
       ELSE Return(p, JsonError(404, "order not found"))
    /\ UNCHANGED <<probe, fixture, idProbe, userStore, orderStore, accountCounter, orderCounter, clock, drawn,
                   created, carried, allocs>>
    /\ Touch(p)

\* fresh noisy fields on the copy, writeJSON(w, http.StatusOK, order)
GetOrderRespond(p) ==
    /\ At(p, "/orders/", "respond")
    /\ LET order == Regenerate(local[p].rec, local[p].startTime, clock, drawn)
       IN /\ Return(p, JsonOK(200, order))
          /\ carried' = Carry(carried, ResponseIds(order))
    /\ drawn' = drawn + 4
    /\ UNCHANGED <<probe, fixture, idProbe, userStore, orderStore, accountCounter, orderCounter, storeMutex, clock,
                   created, allocs>>
    /\ Touch(p)

\* ---------------------------------------------------------- specification
Next ==
    \/ \E p \in Procs : CreateUserStart(p)
    \/ \E p \in Procs : GenAccountLock(p)
    \/ \E p \in Procs : GenAccountReturn(p)
    \/ \E p \in Procs : CreateUserBuild(p)
    \/ \E p \in Procs : CreateUserInsert(p)
    \/ \E p \in Procs : CreateUserUnlock(p)
    \/ \E p \in Procs : CreateUserRespond(p)
    \/ \E p \in Procs : CreateOrderStart(p)
    \/ \E p \in Procs : CreateOrderCheck(p)
    \/ \E p \in Procs : CreateOrderChecked(p)
    \/ \E p \in Procs : GenOrderLock(p)
    \/ \E p \in Procs : GenOrderReturn(p)
    \/ \E p \in Procs : CreateOrderBuild(p)
    \/ \E p \in Procs : CreateOrderInsert(p)
    \/ \E p \in Procs : CreateOrderUnlock(p)
    \/ \E p \in Procs : CreateOrderRespond(p)
    \/ \E p \in Procs : GetUserStart(p)
    \/ \E p \in Procs : GetUserLookup(p)
    \/ \E p \in Procs : GetUserFound(p)
    \/ \E p \in Procs : GetUserRespond(p)
    \/ \E p \in Procs : GetOrderStart(p)
    \/ \E p \in Procs : GetOrderLookup(p)
    \/ \E p \in Procs : GetOrderFound(p)
    \/ \E p \in Procs : GetOrderRespond(p)
    \/ \E p \in Procs : HealthRequest(p)
    \/ Tick

Spec == Init /\ [][Next]_vars

\* ------------------------------------------------------ fair scheduling
\* the steps of the handler a goroutine is running
HandlerStep(p) ==
    \/ GenAccountLock(p) \/ GenAccountReturn(p) \/ CreateUserBuild(p)
    \/ CreateUserInsert(p) \/ CreateUserUnlock(p) \/ CreateUserRespond(p)
    \/ CreateOrderCheck(p) \/ CreateOrderChecked(p) \/ GenOrderLock(p)
    \/ GenOrderReturn(p) \/ CreateOrderBuild(p) \/ CreateOrderInsert(p)
    \/ CreateOrderUnlock(p) \/ CreateOrderRespond(p)
    \/ GetUserLookup(p) \/ GetUserFound(p) \/ GetUserRespond(p)
    \/ GetOrderLookup(p) \/ GetOrderFound(p) \/ GetOrderRespond(p)
\* the Go scheduler runs every runnable goroutine again and again
Fairness == \A p \in Procs : WF_vars(HandlerStep(p))
SpecFair == Spec /\ Fairness

\* ------------------------------------------- the key generators on their own
\* generateAccountNumber and generateOrderID called one after the other by a
\* single goroutine, from a counter that has already reached a sampled value
MaxProbeSteps == 6

RECURSIVE Pow10(_)
Pow10(k) == IF k = 0 THEN 1 ELSE 10 * Pow10(k - 1)
CounterSamples == {0} \cup {d * Pow10(k) - 2 : d \in {1, 2}, k \in 1..9}

KeysInit ==
    /\ InitStore
    /\ probe \in {[NoProbe EXCEPT !.n = c] : c \in CounterSamples}
    /\ fixture = NoFixture
    /\ idProbe = NoIds

ProbeStep ==
    /\ probe.steps < MaxProbeSteps
    /\ probe' = [n |-> probe.n + 1,
                 steps |-> probe.steps + 1,
                 accountNumber |-> generateAccountNumber(probe.n + 1),
                 orderId |-> generateOrderID(probe.n + 1)]
    /\ Silent
    /\ UNCHANGED <<fixture, idProbe, userStore, orderStore, accountCounter, orderCounter,
                   storeMutex, pc, req, local, clock, drawn, nreq, created, carried, allocs,
                   touched, known>>

SpecKeys == KeysInit /\ [][ProbeStep]_vars

\* --------------------------------------- the fixture server's ID generators
\* what the store server's state does while another specification runs
StoreVars == <<userStore, orderStore, accountCounter, orderCounter, storeMutex, pc, req,
               local, clock, drawn, nreq, lastResp, created, carried, allocs, touched,
               known>>

\* a reading of time.Now(): Unix seconds, given as decimal digits, and the
\* milliseconds within the second
Instant(ds, ms) == [sec |-> Int64FromDecimal(ds), msec |-> ms]
\* time.Time.Unix() and time.Time.UnixMilli()
NowUnix(now) == now.sec
NowUnixMilli(now) == Add64(MulSmall64(now.sec, 1000), Small64(now.msec))

\* epoch := int64(1288834974657)
SnowflakeEpoch == Int64FromDecimal(<<1, 2, 8, 8, 8, 3, 4, 9, 7, 4, 6, 5, 7>>)

\* the timestamp taken from the Unix epoch instead of the Snowflake epoch
generateSnowflakeIDNoEpoch(now, sequence, worker, datacenter) ==
    LET timestamp == Shl64(NowUnixMilli(now), 22)
        workerId == Shl64(Small64(worker), 12)
        datacenterId == Shl64(Small64(datacenter), 17)
        snowflake == Or64(Or64(Or64(timestamp, datacenterId), workerId), Small64(sequence))
    IN FormatInt(snowflake, 10)
\* the worker shifted by 11: its lowest bit shares a place with the sequence
generateSnowflakeIDWorker11(now, sequence, worker, datacenter) ==
    LET timestamp == Shl64(Sub64(NowUnixMilli(now), SnowflakeEpoch), 22)
        workerId == Shl64(Small64(worker), 11)
        datacenterId == Shl64(Small64(datacenter), 17)
        snowflake == Or64(Or64(Or64(timestamp, datacenterId), workerId), Small64(sequence))
    IN FormatInt(snowflake, 10)
\* sequence, worker, datacenter: rand.Int63n(4096), rand.Intn(32), rand.Intn(32)
generateSnowflakeID(now, sequence, worker, datacenter) ==
    LET timestamp == Shl64(Sub64(NowUnixMilli(now), SnowflakeEpoch), 22)
        workerId == Shl64(Small64(worker), 12)
        datacenterId == Shl64(Small64(datacenter), 17)
        snowflake == Or64(Or64(Or64(timestamp, datacenterId), workerId), Small64(sequence))
    IN FormatInt(snowflake, 10)

\* the seconds formatted without the conversion to uint32
generateObjectIDWide(now, r1, r2, counter) ==
    ZeroPad(FormatUint(NowUnix(now), 16), 8)
    \o ZeroPad(FormatUint(Small64(r1), 16), 4)
    \o ZeroPad(FormatUint(Small64(r2), 16), 4)
    \o ZeroPad(FormatUint(counter, 16), 8)
\* r1, r2: rand.Intn(0xFFFF); counter: rand.Uint32();
\* fmt.Sprintf("%08x%04x%04x%08x", timestamp, r1, r2, counter)
generateObjectID(now, r1, r2, counter) ==
    LET timestamp == Uint32(NowUnix(now))
    IN ZeroPad(FormatUint(timestamp, 16), 8)
       \o ZeroPad(FormatUint(Small64(r1), 16), 4)
       \o ZeroPad(FormatUint(Small64(r2), 16), 4)
       \o ZeroPad(FormatUint(counter, 16), 8)

\* the two generators called by a single goroutine at a sampled clock reading
MaxIdCalls == 2

\* readings around every change in the result: 1970; the Snowflake epoch; the
\* offsets 23841857910, 23841857911, 238418579101, 238418579102, 2^41 - 1 and
\* 2^41 from it; a present-day reading; the seconds 2^32 - 1 and beyond 2^32
ClockSamples ==
    {Instant(<<1>>, 0),
     Instant(<<1, 2, 8, 8, 8, 3, 4, 9, 7, 4>>, 657),
     Instant(<<1, 3, 1, 2, 6, 7, 6, 8, 3, 2>>, 567),
     Instant(<<1, 3, 1, 2, 6, 7, 6, 8, 3, 2>>, 568),
     Instant(<<1, 5, 2, 7, 2, 5, 3, 5, 5, 3>>, 758),
     Instant(<<1, 5, 2, 7, 2, 5, 3, 5, 5, 3>>, 759),
     Instant(<<1, 7, 9, 3, 7, 4, 4, 0, 3, 7>>, 0),
     Instant(<<3, 4, 8, 7, 8, 5, 8, 2, 3, 0>>, 208),
     Instant(<<3, 4, 8, 7, 8, 5, 8, 2, 3, 0>>, 209),
     Instant(<<4, 2, 9, 4, 9, 6, 7, 2, 9, 5>>, 999),
     Instant(<<5, 6, 0, 7, 6, 4, 4, 1, 2, 8>>, 0)}
\* draws of rand.Int63n(4096), rand.Intn(32), rand.Intn(0xFFFF), rand.Uint32()
SequenceDraws == {0, 1, 4095}
NodeDraws == {0, 31}
WordDraws == {0, 255, 65534}
CounterDraws == {Zero64, <<36881, 39235, 0, 0>>, <<65535, 65535, 0, 0>>}

IdsInit ==
    /\ InitStore
    /\ probe = NoProbe
    /\ fixture = NoFixture
    /\ idProbe \in {[NoIds EXCEPT !.now = c] : c \in ClockSamples}

CallSnowflakeID ==
    /\ idProbe.calls < MaxIdCalls
    /\ \E sequence \in SequenceDraws, worker \in NodeDraws, datacenter \in NodeDraws :
          idProbe' = [idProbe EXCEPT
                         !.calls = @ + 1,
                         !.snowflake = generateSnowflakeID(idProbe.now, sequence, worker,
                                                           datacenter)]
    /\ UNCHANGED <<StoreVars, probe, fixture>>

CallObjectID ==
    /\ idProbe.calls < MaxIdCalls
    /\ \E r1 \in WordDraws, r2 \in WordDraws, counter \in CounterDraws :
          idProbe' = [idProbe EXCEPT
                         !.calls = @ + 1,
                         !.objectId = generateObjectID(idProbe.now, r1, r2, counter)]
    /\ UNCHANGED <<StoreVars, probe, fixture>>

IdsNext == CallSnowflakeID \/ CallObjectID

SpecIds == IdsInit /\ [][IdsNext]_vars

\* ------------------------------------------------- the fixture server (src/main.go)
\* Sixteen stateless handlers.  Each run of a handler reads the clock, draws
\* from the fresh ID libraries and from math/rand, and writes one response.
MaxFixtureRequests == 2

\* net/http's default mux dispatches every method to the registered handler
FixtureMethods == {"GET", "POST"}

\* the readings of time.Now() in one run of a handler: h while it sets the
\* headers, b while it builds the body, h not after b
FixtureClocks ==
    {Instant(<<1, 5, 2, 7, 2, 5, 3, 5, 5, 3>>, 758),
     Instant(<<1, 5, 2, 7, 2, 5, 3, 5, 5, 4>>, 3)}
NotAfter(h, b) == ~Lt64(NowUnixMilli(b), NowUnixMilli(h))

\* math/rand as a stream of draws: all lowest, all highest, or varying
RandStreams == {"lo", "hi", "mix"}
\* rand.Intn(n) at position i of the stream
Intn(s, i, n) ==
    CASE s = "lo" -> 0
      [] s = "hi" -> n - 1
      [] OTHER -> (7 * i + (i \div 16) + 3) % n
\* rand.Uint32() at position i of the stream
RandUint32(s, i) ==
    CASE s = "lo" -> Zero64
      [] s = "hi" -> <<65535, 65535, 0, 0>>
      [] OTHER -> <<(7919 * i) % 65536, (10007 * i + 1) % 65536, 0, 0>>

UpperChars == <<"A", "B", "C", "D", "E", "F", "G", "H", "I", "J", "K", "L", "M",
                "N", "O", "P", "Q", "R", "S", "T", "U", "V", "W", "X", "Y", "Z">>
LowerChars == <<"a", "b", "c", "d", "e", "f", "g", "h", "i", "j", "k", "l", "m",
                "n", "o", "p", "q", "r", "s", "t", "u", "v", "w", "x", "y", "z">>
NanoAlphabet == UpperChars \o LowerChars \o DigitChars \o <<"_", "-">>
ApiKeyChars == UpperChars \o LowerChars \o DigitChars \o <<"+", "/", "=">>

\* the loop stopping one character early
RandStringShort(alphabet, n, s, k) ==
    [i \in 1..(n - 1) |-> alphabet[Intn(s, k + i, Len(alphabet)) + 1]]
\* b := make([]byte, n); b[i] = alphabet[rand.Intn(len(alphabet))]; the draws
\* are those after position k of the stream
RandString(alphabet, n, s, k) ==
    [i \in 1..n |-> alphabet[Intn(s, k + i, Len(alphabet)) + 1]]
generateNanoID(s, k) == RandString(NanoAlphabet, 21, s, k)
generateSHA256(s, k) == RandString(HexChars, 64, s, k)
generateAPIKey(s, k) == RandString(ApiKeyChars, 40, s, k)
generateSessionToken(s, k) == RandString(HexChars, 32, s, k)

\* generateObjectID and generateSnowflakeID fed from the stream
ObjectIDFrom(now, s, k) ==
    generateObjectID(now, Intn(s, k + 2, 65535), Intn(s, k + 3, 65535), RandUint32(s, k + 1))
SnowflakeIDFrom(now, s, k) ==
    generateSnowflakeID(now, Intn(s, k + 1, 4096), Intn(s, k + 2, 32), Intn(s, k + 3, 32))

\* ulid.Make(): the clock's milliseconds and process-wide monotonic entropy
Ulid(now, n) == [lib |-> "ulid", ms |-> NowUnixMilli(now), n |-> n]

\* time.Local, fixed when the process starts: UTC, a zone that is on GMT all
\* year, and a zone east of Greenwich
ProcessZones ==
    {ZoneUTC,
     [name |-> "Africa/Abidjan", abbr |-> <<"G", "M", "T">>, offset |-> 0],
     [name |-> "Asia/Kolkata", abbr |-> <<"I", "S", "T">>, offset |-> 19800]}
\* the layout element "Z07:00": Z for offset zero, else the signed hh:mm
NumericZone(offset) ==
    IF offset = 0 THEN <<"Z">>
    ELSE <<"+">> \o ZeroPad(Decimal(offset \div 3600), 2) \o <<":">>
               \o ZeroPad(Decimal((offset % 3600) \div 60), 2)
\* what a layout prints for the zone: RFC3339 has "Z07:00", the others "MST"
ZoneText(layout, z) == IF layout = "RFC3339" THEN NumericZone(z.offset) ELSE z.abbr
\* the seconds of the wall clock of zone z at the instant
WallSeconds(now, z) == Add64(NowUnix(now), Small64(z.offset))
\* t.Format(layout) of a time.Now() value, which is in time.Local, for the
\* layouts with one-second resolution
TimeFormat(now, layout) ==
    [layout |-> layout,
     wall |-> WallSeconds(now, fixture.zone),
     zone |-> ZoneText(layout, fixture.zone)]
\* t.Format("2006-01-02"): the local day only
DateFormat(now) ==
    [layout |-> "2006-01-02",
     day |-> DivModSmall64(DivModSmall64(WallSeconds(now, fixture.zone), 3600).q, 24).q]
\* t.UnixNano()
NowUnixNano(now) == MulSmall64(MulSmall64(NowUnixMilli(now), 1000), 1000)
\* t.Add(time.Hour)
AddHour(now) == [now EXCEPT !.sec = Add64(@, Small64(3600))]

\* fmt.Sprintf("enc_%s", ...), "token_%s", "id_%s"
EncPrefix == <<"e", "n", "c", "_">>
TokenPrefix == <<"t", "o", "k", "e", "n", "_">>
IdPrefix == <<"i", "d", "_">>

JsonType == "Content-Type" :> "application/json"
TextType == "Content-Type" :> "text/plain"
NoHeaders == << >>
NoBodyWritten == [none |-> TRUE]

\* ---- the response of each handler: headers, status, body.  h, b: clock
\* readings; d: fresh IDs drawn before this run; s: the run's random stream
TimestampsHeaders(h) ==
    JsonType @@ ("Date" :> TimeFormat(h, "RFC1123"))
             @@ ("X-Request-Time" :> TimeFormat(h, "RFC3339"))
TimestampResponse(b) ==
    [rfc3339 |-> TimeFormat(b, "RFC3339"),
     rfc1123 |-> TimeFormat(b, "RFC1123"),
     unix_date |-> TimeFormat(b, "UnixDate"),
     iso8601 |-> DateFormat(b),
     custom_date |-> TimeFormat(b, "Mon, 02 Jan 2006 15:04:05 MST"),
     unix_nano |-> NowUnixNano(b),
     static_name |-> "This is a static value"]

UuidsHeaders(d) == JsonType @@ ("X-Request-ID" :> Uuid(d + 1))
UUIDResponse(d) ==
    [id |-> Uuid(d + 2),
     session_id |-> Uuid(d + 3),
     request_id |-> Uuid(d + 4),
     static_field |-> "static-value-not-uuid"]

RandomIdsHeaders(d) == JsonType @@ ("X-Trace-ID" :> Ksuid(d + 1))
RandomIDResponse(b, d, s) ==
    [ksuid |-> Ksuid(d + 2),
     ulid |-> Ulid(b, d + 3),
     object_id |-> ObjectIDFrom(b, s, 0),
     snowflake_id |-> SnowflakeIDFrom(b, s, 3),
     nano_id |-> generateNanoID(s, 6),
     static_val |-> "normal-static-value"]

PrefixedIDResponse(s) ==
    [encryption_key |-> EncPrefix \o generateSessionToken(s, 0),
     token_id |-> TokenPrefix \o generateSessionToken(s, 32),
     user_id |-> IdPrefix \o generateSessionToken(s, 64),
     regular_text |-> "This is regular text content"]

HashesHeaders(s) == JsonType @@ ("X-Auth-Token" :> generateAPIKey(s, 0))
HashResponse(s) ==
    [sha256_hash |-> generateSHA256(s, 40),
     api_key |-> generateAPIKey(s, 104),
     session_token |-> generateSessionToken(s, 144),
     regular_string |-> "This is a regular string value"]

NestedResponse(b, d) ==
    [data |-> [created_at |-> TimeFormat(b, "RFC3339"),
               updated_at |-> TimeFormat(AddHour(b), "RFC3339"),
               id |-> Uuid(d + 1),
               title |-> "Sample Title"],
     meta |-> [request_id |-> Ksuid(d + 2),
               trace_id |-> Ulid(b, d + 3),
               service_name |-> "noisy-field-detector"]]

ArrayResponse(b, d) ==
    [ids |-> <<Uuid(d + 1), Uuid(d + 2), Uuid(d + 3)>>,
     timestamps |-> <<TimeFormat(b, "RFC3339"), TimeFormat(AddHour(b), "RFC3339")>>,
     names |-> <<"John", "Jane", "Bob">>]

MixedHeaders(d) ==
    JsonType @@ ("X-Correlation-ID" :> Uuid(d + 1)) @@ ("Content-Language" :> "en-US")
\* a MixedResponse whose email is made from the request's id
MixedResponseEmailById(b, d) ==
    [id |-> Uuid(d + 2),
     name |-> "John Doe",
     email |-> [local |-> Uuid(d + 2), domain |-> "example.com"],
     age |-> 30,
     created_at |-> TimeFormat(b, "RFC3339"),
     balance |-> "1234.56",
     request_id |-> Ksuid(d + 3),
     phone_number |-> "+1-555-123-4567",
     ip_address |-> "192.168.1.100"]
MixedResponse(b, d) ==
    [id |-> Uuid(d + 2),
     name |-> "John Doe",
     email |-> "john.doe@example.com",
     age |-> 30,
     created_at |-> TimeFormat(b, "RFC3339"),
     balance |-> "1234.56",
     request_id |-> Ksuid(d + 3),
     phone_number |-> "+1-555-123-4567",
     ip_address |-> "192.168.1.100"]

EdgeCaseResponse ==
    [empty_string |-> "",
     short_string |-> "abc",
     long_normal_string |-> "The quick brown fox jumps over the lazy dog",
     partial_uuid |-> "550e8400-e29b-41d4-a716",
     almost_timestamp |-> "not-a-date-2023",
     number_string |-> "12345",
     url_string |-> "https://example.com/path",
     email_string |-> "test@example.com"]

PlainText == [text |-> "This is a regular plain text response"]

HeadersOnlyHeaders(h, d) ==
    ("X-Request-ID" :> Uuid(d + 1))
    @@ ("X-Timestamp" :> TimeFormat(h, "RFC3339"))
    @@ ("X-Static-Header" :> "static-value")

AllNoisyHeaders(h, d) ==
    JsonType @@ ("Date" :> TimeFormat(h, "RFC1123"))
             @@ ("X-Request-ID" :> Uuid(d + 1))
             @@ ("X-Trace-ID" :> Ksuid(d + 2))
AllNoisyResponse(b, d, s) ==
    [uuid |-> Uuid(d + 3),
     ksuid |-> Ksuid(d + 4),
     ulid |-> Ulid(b, d + 5),
     object_id |-> ObjectIDFrom(b, s, 0),
     snowflake |-> SnowflakeIDFrom(b, s, 3),
     nano_id |-> generateNanoID(s, 6),
     timestamp |-> TimeFormat(b, "RFC3339"),
     sha256 |-> generateSHA256(s, 27),
     api_key |-> generateAPIKey(s, 91),
     prefixed_id |-> EncPrefix \o generateSessionToken(s, 131),
     nested |-> [created_at |-> TimeFormat(b, "RFC3339"),
                 id |-> Uuid(d + 6),
                 static |-> "not-noisy-value"],
     id_array |-> <<Uuid(d + 7), Uuid(d + 8)>>,
     static_field |-> "This is a static non-noisy field"]

FixtureHealth == [status |-> "healthy"]

\* the server goes on serving
Serving == fixture.n < MaxFixtureRequests
\* the handler of route has run for a request with the method and has written
\* the response; ids is the number of fresh IDs it drew
Respond(route, method, status, headers, body, ids) ==
    /\ LET resp == [route |-> route, method |-> method, status |-> status,
                    headers |-> headers, body |-> body]
       IN fixture' = [n |-> fixture.n + 1,
                      drawn |-> fixture.drawn + ids,
                      resp |-> resp,
                      first |-> IF route \in DOMAIN fixture.first THEN fixture.first
                                ELSE Remember(fixture.first, route, resp),
                      zone |-> fixture.zone]
    /\ UNCHANGED <<StoreVars, probe, idProbe>>

Timestamps ==
    \E method \in FixtureMethods, h \in FixtureClocks, b \in FixtureClocks :
        /\ Serving
        /\ NotAfter(h, b)
        /\ Respond("/timestamps", method, 200, TimestampsHeaders(h), TimestampResponse(b), 0)
Uuids ==
    \E method \in FixtureMethods :
        /\ Serving
        /\ Respond("/uuids", method, 200, UuidsHeaders(fixture.drawn),
                   UUIDResponse(fixture.drawn), 4)
RandomIds ==
    \E method \in FixtureMethods, b \in FixtureClocks, s \in RandStreams :
        /\ Serving
        /\ Respond("/random-ids", method, 200, RandomIdsHeaders(fixture.drawn),
                   RandomIDResponse(b, fixture.drawn, s), 3)
PrefixedIds ==
    \E method \in FixtureMethods, s \in RandStreams :
        /\ Serving
        /\ Respond("/prefixed-ids", method, 200, JsonType, PrefixedIDResponse(s), 0)
Hashes ==
    \E method \in FixtureMethods, s \in RandStreams :
        /\ Serving
        /\ Respond("/hashes", method, 200, HashesHeaders(s), HashResponse(s), 0)
Nested ==
    \E method \in FixtureMethods, b \in FixtureClocks :
        /\ Serving
        /\ Respond("/nested", method, 200, JsonType, NestedResponse(b, fixture.drawn), 3)
Arrays ==
    \E method \in FixtureMethods, b \in FixtureClocks :
        /\ Serving
        /\ Respond("/arrays", method, 200, JsonType, ArrayResponse(b, fixture.drawn), 3)
Mixed ==
    \E method \in FixtureMethods, b \in FixtureClocks :
        /\ Serving
        /\ Respond("/mixed", method, 200, MixedHeaders(fixture.drawn),
                   MixedResponse(b, fixture.drawn), 3)
EdgeCases ==
    \E method \in FixtureMethods :
        /\ Serving
        /\ Respond("/edge-cases", method, 200, JsonType, EdgeCaseResponse, 0)
PlainUuid ==
    \E method \in FixtureMethods :
        /\ Serving
        /\ Respond("/plain-uuid", method, 200, TextType, [text |-> Uuid(fixture.drawn + 1)], 1)
PlainTimestamp ==
    \E method \in FixtureMethods, b \in FixtureClocks :
        /\ Serving
        /\ Respond("/plain-timestamp", method, 200, TextType,
                   [text |-> TimeFormat(b, "RFC3339")], 0)
PlainTextRoute ==
    \E method \in FixtureMethods :
        /\ Serving
        /\ Respond("/plain-text", method, 200, TextType, PlainText, 0)
Empty ==
    \E method \in FixtureMethods :
        /\ Serving
        /\ Respond("/empty", method, 204, NoHeaders, NoBodyWritten, 0)
HeadersOnly ==
    \E method \in FixtureMethods, h \in FixtureClocks :
        /\ Serving
        /\ Respond("/headers-only", method, 200, HeadersOnlyHeaders(h, fixture.drawn),
                   NoBodyWritten, 1)
AllNoisy ==
    \E method \in FixtureMethods, h \in FixtureClocks, b \in FixtureClocks,
       s \in RandStreams :
        /\ Serving
        /\ NotAfter(h, b)
        /\ Respond("/all-noisy", method, 200, AllNoisyHeaders(h, fixture.drawn),
                   AllNoisyResponse(b, fixture.drawn, s), 8)
HealthRoute ==
    \E method \in FixtureMethods :
        /\ Serving
        /\ Respond("/health", method, 200, JsonType, FixtureHealth, 0)

FixtureInit ==
    /\ InitStore
    /\ probe = NoProbe
    /\ idProbe = NoIds
    /\ fixture \in {[NoFixture EXCEPT !.zone = z] : z \in ProcessZones}

FixtureNext ==
    \/ Timestamps
    \/ Uuids
    \/ RandomIds
    \/ PrefixedIds
    \/ Hashes
    \/ Nested
    \/ Arrays
    \/ Mixed
    \/ EdgeCases
    \/ PlainUuid
    \/ PlainTimestamp
    \/ PlainTextRoute
    \/ Empty
    \/ HeadersOnly
    \/ AllNoisy
    \/ HealthRoute

SpecFixture == FixtureInit /\ [][FixtureNext]_vars

\* ----------------------------------------------------- what responses say
IsResp(route, method, status) ==
    /\ lastResp.req.route = route
    /\ lastResp.req.method = method
    /\ lastResp.status = status

\* ^ACC-\d{8}$ and ^ORD-\d{8}$
MatchesKey(s, pre) ==
    /\ Len(s) = Len(pre) + 8
    /\ HasPrefix(s, pre)
    /\ \A i \in (Len(pre) + 1)..Len(s) : s[i] \in DigitSet

\* C1: a GET of a key whose 201 response has been delivered returns the stable
\* fields of the create request: name, email and accountNumber of the user;
\* accountNumber, amount, items and status PENDING of the order
C1_RoundTripStable ==
    /\ (IsResp("/users/", "GET", 200) /\ lastResp.req.arg \in DOMAIN created) =>
         LET c == created[lastResp.req.arg]
         IN /\ c.resp.accountNumber = lastResp.req.arg
            /\ lastResp.body.accountNumber = lastResp.req.arg
            /\ lastResp.body.name = c.req.name
            /\ lastResp.body.email = c.req.email
    /\ (IsResp("/orders/", "GET", 200) /\ lastResp.req.arg \in DOMAIN created) =>
         LET c == created[lastResp.req.arg]
         IN /\ c.resp.orderId = lastResp.req.arg
            /\ lastResp.body.orderId = lastResp.req.arg
            /\ lastResp.body.accountNumber = c.req.accountNumber
            /\ lastResp.body.amount = c.req.amount
            /\ lastResp.body.items = c.req.items
            /\ lastResp.body.status = "PENDING"

\* an order is read back after its 201, with a user and the order in the maps
C1_Witness ==
    /\ IsResp("/orders/", "GET", 200)
    /\ lastResp.req.arg \in DOMAIN created
    /\ created[lastResp.req.arg].req.amount = 7
    /\ userStore # << >>

\* C2: a POST /orders with a valid body whose accountNumber was not in userStore
\* at the existence check is answered 404 and changed no counter and no map
C2_UnknownParentNoMutation ==
    (/\ lastResp.req.route = "/orders"
     /\ lastResp.req.method = "POST"
     /\ ~lastResp.req.body.decodeErr
     /\ lastResp.req.body.accountNumber # EmptyStr
     /\ lastResp.req.body.amount > 0
     /\ lastResp.req.body.items # << >>
     /\ ~lastResp.exists)
    => (lastResp.status = 404 /\ ~lastResp.touched)

\* the 404 is given while another account exists and an account number is out
C2_Witness ==
    /\ IsResp("/orders", "POST", 404)
    /\ userStore # << >>
    /\ lastResp.req.body.accountNumber \notin DOMAIN userStore
    /\ accountCounter = 1

\* C3: a request answered 400, 404 or 405 changed no counter and no map; a
\* request that changed one is a create request, and its answer is 201 with its
\* record in the map
C3_NoPartialFailure ==
    /\ lastResp.status \in {400, 404, 405} => ~lastResp.touched
    /\ lastResp.touched =>
         /\ lastResp.status = 201
         /\ lastResp.req.route = "/users" =>
                lastResp.body.accountNumber \in DOMAIN userStore
         /\ lastResp.req.route = "/orders" =>
                lastResp.body.orderId \in DOMAIN orderStore
    /\ \A p \in Procs : touched[p] => req[p].route \in {"/users", "/orders"}

\* an error response to a request that ran while another request had already
\* incremented a counter
C3_Witness ==
    /\ lastResp.status = 404
    /\ \E p \in Procs : touched[p]

\* C4: the keys each generator returns are strictly increasing in the order they
\* are returned, so no two are equal; every increment of a counter is kept; no
\* key held by a request in flight has been answered before or is held twice
AllocsOf(pre) == SelectSeq(allocs, LAMBDA k : HasPrefix(k, pre))
StrictlyIncreasing(keys, pre) ==
    \A i, j \in DOMAIN keys : i < j => KeyNumber(keys[i], pre) < KeyNumber(keys[j], pre)
HoldsKey(p) == pc[p] > 0 /\ local[p].key # EmptyStr

C4_UniqueMonotonicKeys ==
    /\ StrictlyIncreasing(AllocsOf(AccPrefix), AccPrefix)
    /\ StrictlyIncreasing(AllocsOf(OrdPrefix), OrdPrefix)
    /\ accountCounter = Len(AllocsOf(AccPrefix))
                        + Cardinality({p \in Procs : At(p, "/users", "genReturn")})
    /\ orderCounter = Len(AllocsOf(OrdPrefix))
                      + Cardinality({p \in Procs : At(p, "/orders", "genReturn")})
    /\ \A p \in Procs : HoldsKey(p) =>
         /\ local[p].key \notin DOMAIN created
         /\ \A q \in Procs \ {p} : HoldsKey(q) => local[q].key # local[p].key

\* two orders for the same account are being created at the same time
C4_Witness ==
    \E p, q \in Procs :
        /\ p # q
        /\ HoldsKey(p) /\ HoldsKey(q)
        /\ req[p].route = "/orders" /\ req[q].route = "/orders"
        /\ req[p].body.accountNumber = req[q].body.accountNumber

\* C5: a GET of a key whose 201 had been delivered when the GET started is
\* answered 200, and a valid POST /orders naming an account whose 201 had been
\* delivered when it started passes the existence check
C5_ReadYourWrites ==
    /\ (lastResp.req.route \in {"/users/", "/orders/"}
        /\ lastResp.req.method = "GET"
        /\ lastResp.req.arg \in lastResp.known) => lastResp.status = 200
    /\ (lastResp.req.route = "/orders"
        /\ lastResp.req.method = "POST"
        /\ lastResp.status \in {201, 404}
        /\ lastResp.req.body.accountNumber \in lastResp.known)
       => (lastResp.exists /\ lastResp.status = 201)

\* an order is accepted for an account whose 201 had gone out
C5_Witness ==
    /\ IsResp("/orders", "POST", 201)
    /\ lastResp.req.body.accountNumber \in lastResp.known

\* C6 as claimed: on a hit every field declared noisy differs from its value in
\* the 201 response that created the record
UserNoisyFields == {"sessionId", "uuidV4", "ulidId", "ksuidId", "createdAt",
                    "parsedTimestamp", "requestId", "processingTimeMs", "serverTimestamp"}
OrderNoisyFields == UserNoisyFields \cup {"transactionHash"}
FreshIdFields == {"sessionId", "uuidV4", "ksuidId", "requestId"}

GetHitAfterCreate(route) ==
    IsResp(route, "GET", 200) /\ lastResp.req.arg \in DOMAIN created

C6_AllNoisyFieldsDiffer ==
    /\ GetHitAfterCreate("/users/") =>
         \A f \in UserNoisyFields :
            lastResp.body[f] # created[lastResp.req.arg].resp[f]
    /\ GetHitAfterCreate("/orders/") =>
         \A f \in OrderNoisyFields :
            lastResp.body[f] # created[lastResp.req.arg].resp[f]

\* C6 as amended: on a hit sessionId, uuidV4, ksuidId and requestId differ from
\* their values in the 201 response, while createdAt, and transactionHash of an
\* order, are the values of the 201 response
C6_FreshIdsDifferCreatedAtKept ==
    /\ GetHitAfterCreate("/users/") =>
         LET c == created[lastResp.req.arg].resp
         IN /\ \A f \in FreshIdFields : lastResp.body[f] # c[f]
            /\ lastResp.body.createdAt = c.createdAt
    /\ GetHitAfterCreate("/orders/") =>
         LET c == created[lastResp.req.arg].resp
         IN /\ \A f \in FreshIdFields : lastResp.body[f] # c[f]
            /\ lastResp.body.createdAt = c.createdAt
            /\ lastResp.body.transactionHash = c.transactionHash

\* a user is read back after the clock has moved on: the ULID is new, the
\* one-second timestamps are not
C6_Witness ==
    /\ GetHitAfterCreate("/users/")
    /\ lastResp.body.ulidId # created[lastResp.req.arg].resp.ulidId
    /\ lastResp.body.serverTimestamp = created[lastResp.req.arg].resp.serverTimestamp

\* C7: with uuid and ksuid as fresh sources, each sessionId, uuidV4, ksuidId and
\* requestId value is carried by one field of one response
C7_ResponseIdsNeverRepeat == \A id \in DOMAIN carried : carried[id] = 1

\* a record is read back twice after its creation was answered
C7_Witness ==
    /\ IsResp("/users/", "GET", 200)
    /\ Cardinality(DOMAIN carried) >= 12

\* C8: the status of a create request is that of the first failing check, in
\* the order method, body decode, field validation, parent existence
C8_ExpectedStatus(r) ==
    IF r.req.method # "POST" THEN 405
    ELSE IF r.req.body.decodeErr THEN 400
    ELSE IF r.req.route = "/users" /\ (r.req.body.name = "" \/ r.req.body.email = "")
         THEN 400
    ELSE IF r.req.route = "/orders"
            /\ (\/ r.req.body.accountNumber = EmptyStr
                \/ r.req.body.amount <= 0
                \/ r.req.body.items = << >>)
         THEN 400
    ELSE IF r.req.route = "/orders" /\ ~r.exists THEN 404
    ELSE 201

C8_CreateStatusOrder ==
    lastResp.req.route \in {"/users", "/orders"} =>
        /\ lastResp.status = C8_ExpectedStatus(lastResp)
        /\ (lastResp.req.route = "/orders" /\ lastResp.status = 201) =>
              lastResp.req.body.accountNumber \in DOMAIN userStore

\* an order body with a non-positive amount for an account that does not exist
C8_Witness ==
    /\ IsResp("/orders", "POST", 400)
    /\ ~lastResp.req.body.decodeErr
    /\ lastResp.req.body.amount <= 0
    /\ lastResp.req.body.accountNumber # EmptyStr
    /\ lastResp.req.body.accountNumber \notin DOMAIN userStore
    /\ userStore # << >>

\* C9 as claimed: a GET of /users/{k} or /orders/{k} is answered 200 when the
\* key was in the map at the lookup and 404 otherwise, and nothing else
C9_GetIs200Or404 ==
    (lastResp.req.route \in {"/users/", "/orders/"} /\ lastResp.req.method = "GET") =>
        /\ lastResp.status \in {200, 404}
        /\ lastResp.status = 200 <=> lastResp.exists

\* C9 as amended: the same for a non-empty path segment; an empty one is
\* answered 400 without a lookup
StoreOf(route) == IF route = "/users/" THEN userStore ELSE orderStore

C9_GetIs200Or404UnlessEmpty ==
    (lastResp.req.route \in {"/users/", "/orders/"} /\ lastResp.req.method = "GET") =>
        IF lastResp.req.arg = EmptyStr
        THEN lastResp.status = 400 /\ ~lastResp.exists
        ELSE /\ lastResp.status = IF lastResp.exists THEN 200 ELSE 404
             /\ lastResp.status = 200 =>
                    lastResp.req.arg \in DOMAIN StoreOf(lastResp.req.route)
             /\ lastResp.status = 404 => lastResp.req.arg \notin lastResp.known

\* an unknown order id is asked for while an order is in the map
C9_Witness ==
    /\ IsResp("/orders/", "GET", 404)
    /\ lastResp.req.arg # EmptyStr
    /\ orderStore # << >>

\* C10 as claimed: every key the generators return is the prefix and exactly
\* eight decimal digits
C10_AlwaysEightDigits ==
    probe.steps > 0 =>
        /\ MatchesKey(probe.accountNumber, AccPrefix)
        /\ MatchesKey(probe.orderId, OrdPrefix)

\* C10 as amended: that holds while the counter is at most 99999999; from
\* 100000000 on the key is the prefix and the counter's decimal digits, more
\* than eight of them; the digits always read back as the counter
C10_EightDigitsUpTo99999999 ==
    probe.steps > 0 =>
        /\ HasPrefix(probe.accountNumber, AccPrefix)
        /\ HasPrefix(probe.orderId, OrdPrefix)
        /\ \A i \in 5..Len(probe.accountNumber) : probe.accountNumber[i] \in DigitSet
        /\ KeyNumber(probe.accountNumber, AccPrefix) = probe.n
        /\ KeyNumber(probe.orderId, OrdPrefix) = probe.n
        /\ probe.n <= 99999999 =>
              /\ MatchesKey(probe.accountNumber, AccPrefix)
              /\ MatchesKey(probe.orderId, OrdPrefix)
        /\ probe.n > 99999999 =>
              /\ Len(probe.accountNumber) > Len(AccPrefix) + 8
              /\ Len(probe.orderId) > Len(OrdPrefix) + 8

\* the last key of eight digits has been returned
C10_Witness ==
    /\ probe.n = 99999999
    /\ probe.steps > 0
    /\ MatchesKey(probe.accountNumber, AccPrefix)

\* C11 as claimed: every error response, 405 included, has Content-Type
\* application/json and a body that is an object with the one field "error"
C11_ErrorsAreJsonEnvelopes ==
    lastResp.status \in {400, 404, 405} =>
        /\ lastResp.ctype = "application/json"
        /\ DOMAIN lastResp.body = {"error"}

\* C19: for a clock reading t with 23841857911 <= t - 1288834974657 < 2^41 and
\* any draws, generateSnowflakeID returns 18 or 19 decimal digits with no sign:
\* the value is at least 10^17 and has not wrapped to a negative number
SnowflakeMinOffset == Int64FromDecimal(<<2, 3, 8, 4, 1, 8, 5, 7, 9, 1, 1>>)
SnowflakeInRange(now) ==
    LET d == Sub64(NowUnixMilli(now), SnowflakeEpoch)
    IN ~Lt64(d, SnowflakeMinOffset) /\ Lt64(d, <<0, 0, 512, 0>>)
\* the unsigned number written by decimal digits, four digits at a time
RECURSIVE ParseDecimal64(_)
ParseDecimal64(s) ==
    IF Len(s) <= 4 THEN Small64(ParseDecimal(s))
    ELSE Add64(MulSmall64(ParseDecimal64(SubSeq(s, 1, Len(s) - 4)), 10000),
               Small64(ParseDecimal(SubSeq(s, Len(s) - 3, Len(s)))))

C19_SnowflakeHas18Or19Digits ==
    (idProbe.snowflake # EmptyStr /\ SnowflakeInRange(idProbe.now)) =>
        /\ Len(idProbe.snowflake) \in {18, 19}
        /\ \A i \in DOMAIN idProbe.snowflake : idProbe.snowflake[i] \in DigitSet
        /\ idProbe.snowflake[1] # "0"
        /\ LET v == ParseDecimal64(idProbe.snowflake)
           IN /\ ~IsNeg64(v)
              /\ ~LtU64(v, Int64FromDecimal(<<1, 0, 0, 0, 0, 0, 0, 0, 0, 0, 0, 0, 0, 0, 0, 0,
                                               0, 0>>))

\* the largest reading of the range with the largest draws: 19 digits
C19_Witness ==
    /\ idProbe.now = Instant(<<3, 4, 8, 7, 8, 5, 8, 2, 3, 0>>, 208)
    /\ Len(idProbe.snowflake) = 19
    /\ idProbe.snowflake[19] = "9"

\* C20: generateObjectID returns 24 characters of 0-9a-f, the first eight being
\* the low 32 bits of the Unix time in seconds, for every reading and every draw
C20_ObjectIdIs24Hex ==
    idProbe.objectId # EmptyStr =>
        /\ Len(idProbe.objectId) = 24
        /\ \A i \in DOMAIN idProbe.objectId : idProbe.objectId[i] \in HexSet
        /\ LET v == ParseHex64(SubSeq(idProbe.objectId, 1, 8))
               sec == NowUnix(idProbe.now)
           IN v = <<sec[1], sec[2], 0, 0>>

\* an ID made when the seconds no longer fit 32 bits
C20_Witness ==
    /\ idProbe.objectId # EmptyStr
    /\ NowUnix(idProbe.now)[3] > 0
    /\ SubSeq(idProbe.objectId, 9, 12) = <<"f", "f", "f", "e">>

\* the handler that took the step, when the step is one of a running handler
Stepped(p) == pc[p] > 0 /\ pc'[p] # pc[p]
HoldsLock(m, p) == m.writer = p \/ p \in m.readers

\* C13: lock discipline.  A step that increments a counter or inserts into a
\* map is taken by a handler that holds storeMutex in write mode, alone; a
\* step that looks a key up is taken by a handler that holds it in read mode,
\* with no writer; a step that generates the values of a record (it draws from
\* the ID source for a record or a response) is taken by a handler that holds
\* the mutex in neither mode; a writer never shares the mutex with a reader.
C13_StepDiscipline(p) ==
    /\ Shared' # Shared =>
           /\ storeMutex'.writer = p
           /\ storeMutex'.readers = {}
           /\ \A q \in Procs \ {p} : ~HoldsLock(storeMutex, q)
    /\ (At(p, "/users/", "lookup") \/ At(p, "/orders/", "lookup") \/ At(p, "/orders", "check")) =>
           /\ p \in storeMutex'.readers
           /\ storeMutex'.writer = 0
           /\ storeMutex.writer = 0
    /\ drawn' # drawn =>
           /\ ~HoldsLock(storeMutex, p)
           /\ ~HoldsLock(storeMutex', p)
C13_LockDiscipline ==
    [][/\ \A p \in Procs : Stepped(p) => C13_StepDiscipline(p)
       /\ Shared' # Shared => \E p \in Procs : Stepped(p)
       /\ storeMutex'.writer # 0 => storeMutex'.readers = {}]_vars
\* a reader holds the mutex while another handler, past its counter increment,
\* builds its record without the mutex, and a record is already stored
C13_Witness ==
    \E p, q \in Procs :
        /\ p # q
        /\ q \in storeMutex.readers
        /\ At(p, "/users", "insert")
        /\ local[p].rec # NoLocal.rec
        /\ ~HoldsLock(storeMutex, p)
        /\ userStore # << >>

\* C14: referential integrity.  Every order in orderStore names an account
\* that is a key of userStore, under every interleaving of the existence check
\* and the insert of POST /orders with other requests.
C14_ReferentialIntegrity ==
    \A o \in DOMAIN orderStore : orderStore[o].accountNumber \in DOMAIN userStore
\* an order is stored, and a user was inserted between its handler's existence
\* check and its insert: the other handler's POST /users ran in between
C14_Witness ==
    /\ orderStore # << >>
    /\ \E p, q \in Procs :
           /\ p # q
           /\ At(p, "/orders", "unlock")
           /\ local[p].rec.orderId \in DOMAIN orderStore
           /\ req[q].route = "/users"
           /\ pc[q] > 0
           /\ local[q].key \in DOMAIN userStore
           /\ local[q].key # req[p].body.accountNumber

\* every field of the record that creation sets differs from the zero value of
\* its type; processingTimeMs is set too, but may be set to 0
Populated(rec, zero) ==
    /\ DOMAIN rec = DOMAIN zero
    /\ \A f \in DOMAIN zero \ {"processingTimeMs"} : rec[f] # zero[f]
IsGetHit(route) == IsResp(route, "GET", 200)

\* C15: no reader observes a partially populated record.  A handler that is
\* about to lock for its insert holds the complete record and no lock; every
\* record in either map is complete; the record a GET has read under the read
\* lock, and the record every GET hit returns, is complete.
C15_NoPartialRecord ==
    /\ \A p \in Procs :
           /\ At(p, "/users", "insert") =>
                  Populated(local[p].rec, ZeroUser) /\ ~HoldsLock(storeMutex, p)
           /\ At(p, "/orders", "insert") =>
                  Populated(local[p].rec, ZeroOrder) /\ ~HoldsLock(storeMutex, p)
           /\ (At(p, "/users/", "found") /\ local[p].exists) =>
                  Populated(local[p].rec, ZeroUser)
           /\ (At(p, "/orders/", "found") /\ local[p].exists) =>
                  Populated(local[p].rec, ZeroOrder)
    /\ \A k \in DOMAIN userStore : Populated(userStore[k], ZeroUser)
    /\ \A k \in DOMAIN orderStore : Populated(orderStore[k], ZeroOrder)
    /\ IsGetHit("/users/") => Populated(lastResp.body, ZeroUser)
    /\ IsGetHit("/orders/") => Populated(lastResp.body, ZeroOrder)
\* a GET read a record while the other handler, a POST of the same kind, was
\* between its key allocation and its insert
C15_Witness ==
    \E p, q \in Procs :
        /\ At(p, "/users/", "found")
        /\ local[p].exists
        /\ req[q].route = "/users"
        /\ pc[q] > 0
        /\ local[q].key # EmptyStr
        /\ local[q].key \notin DOMAIN userStore

\* handler p of a POST has its key and has not yet locked for the insert
Allocated(p, route) == At(p, route, "build") \/ At(p, route, "insert")

\* C16: key allocation and insert are two critical sections.  A POST that has
\* its key and has not yet inserted holds the mutex in no mode, its counter
\* increment is already visible, and its key is not in the map; so the mutex
\* is free for other requests unless one of those holds it.
C16_TwoCriticalSections ==
    \A p \in Procs :
        /\ Allocated(p, "/users") =>
               /\ ~HoldsLock(storeMutex, p)
               /\ local[p].key \notin DOMAIN userStore
               /\ KeyNumber(local[p].key, AccPrefix) \in 1..accountCounter
               /\ (\A q \in Procs \ {p} : ~HoldsLock(storeMutex, q)) => CanLock(storeMutex)
        /\ Allocated(p, "/orders") =>
               /\ ~HoldsLock(storeMutex, p)
               /\ local[p].key \notin DOMAIN orderStore
               /\ KeyNumber(local[p].key, OrdPrefix) \in 1..orderCounter
               /\ (\A q \in Procs \ {p} : ~HoldsLock(storeMutex, q)) => CanLock(storeMutex)
\* a GET of a key that a POST still in flight has been given is answered 404,
\* after another POST has inserted a key with a higher number
C16_Witness ==
    \E p \in Procs :
        /\ Allocated(p, "/users")
        /\ IsResp("/users/", "GET", 404)
        /\ lastResp.req.arg = local[p].key
        /\ \E k \in DOMAIN userStore :
               KeyNumber(k, AccPrefix) > KeyNumber(local[p].key, AccPrefix)

\* C18: GET /health on the store server.  Every response to GET /health is
\* 200 with the JSON body {"status": "ok"}, whatever the maps, the counters
\* and the mutex are at that moment, and the step that serves it changes no
\* map and no counter.
C18_HealthStep ==
    (lastResp'.req.route = "/health" /\ lastResp'.req.method = "GET") =>
        /\ lastResp'.status = 200
        /\ lastResp'.ctype = "application/json"
        /\ lastResp'.body = [status |-> "ok"]
        /\ ~lastResp'.touched
        /\ Shared' = Shared
        /\ storeMutex' = storeMutex
C18_HealthAlwaysOk == [][C18_HealthStep]_vars
\* /health answered while records are stored and a writer holds the mutex
C18_Witness ==
    /\ IsResp("/health", "GET", 200)
    /\ userStore # << >>
    /\ accountCounter > Cardinality(DOMAIN userStore)
    /\ storeMutex.writer # 0

\* the one verb a route is documented to support
SupportedVerb(route) == IF route \in {"/users", "/orders"} THEN "POST" ELSE "GET"

\* the store server answers every request with another verb 405
C12_StoreWrongVerbIs405 ==
    (lastResp.status # 0 /\ lastResp.req.method # SupportedVerb(lastResp.req.route)) =>
        lastResp.status = 405
\* C12 as claimed: on every route of either server a request with a verb other
\* than the route's own is answered 405, not with the route's success response.
C12_WrongVerbIs405 ==
    /\ C12_StoreWrongVerbIs405
    /\ (fixture.resp.status # 0 /\ fixture.resp.method # SupportedVerb(fixture.resp.route)) =>
           fixture.resp.status = 405

\* the fields of a record named by fields
Pick(rec, fields) == [f \in fields |-> rec[f]]
\* what the README and the struct comments document as not noisy, per route
StablePart(r) ==
    CASE r.route = "/timestamps" -> Pick(r.body, {"static_name"})
      [] r.route = "/uuids" -> Pick(r.body, {"static_field"})
      [] r.route = "/random-ids" -> Pick(r.body, {"static_val"})
      [] r.route = "/prefixed-ids" -> Pick(r.body, {"regular_text"})
      [] r.route = "/hashes" -> Pick(r.body, {"regular_string"})
      [] r.route = "/nested" -> <<r.body.data.title, r.body.meta.service_name>>
      [] r.route = "/arrays" -> r.body.names
      [] r.route = "/mixed" ->
             [body |-> Pick(r.body, {"name", "email", "age", "balance", "phone_number",
                                     "ip_address"}),
              language |-> r.headers["Content-Language"]]
      [] r.route = "/edge-cases" -> r.body
      [] r.route = "/plain-text" -> r.body
      [] r.route = "/headers-only" -> <<r.headers["X-Static-Header"]>>
      [] r.route = "/all-noisy" -> <<r.body.static_field, r.body.nested.static>>
      [] r.route = "/health" -> r.body
      [] OTHER -> << >>

\* C17: stable fixture fields are identical across calls.  The non-noisy part
\* of every response equals the non-noisy part of the first response the same
\* route gave, whatever was served in between, and the /plain-text body is the
\* fixed sentence.
C17_StableFieldsIdentical ==
    fixture.resp.status # 0 =>
        /\ fixture.resp.route \in DOMAIN fixture.first
        /\ StablePart(fixture.resp) = StablePart(fixture.first[fixture.resp.route])
        /\ fixture.resp.route = "/plain-text" =>
               fixture.resp.body = [text |-> "This is a regular plain text response"]
\* /mixed answered a second time, with noisy fields other than the first time
C17_Witness ==
    /\ fixture.n = 2
    /\ fixture.resp.route = "/mixed"
    /\ fixture.resp.method = "GET"
    /\ fixture.first["/mixed"].body.id # fixture.resp.body.id
    /\ fixture.first["/mixed"].body.created_at # fixture.resp.body.created_at
    /\ fixture.first["/mixed"].body.email = fixture.resp.body.email

\* every character of s is one of chars, and s has n of them
IsString(s, n, chars) == Len(s) = n /\ \A i \in 1..Len(s) : s[i] \in chars
NanoSet == {NanoAlphabet[i] : i \in 1..Len(NanoAlphabet)}
\* pre followed by 32 hexadecimal characters
IsPrefixedHex(s, pre) == HasPrefix(s, pre) /\ IsString(Suffix(s, pre), 32, HexSet)

\* C21: the fixed-length random strings.  In every response that carries
\* them, nano_id is 21 characters of [A-Za-z0-9_-], sha256 64 characters of
\* [0-9a-f], session_token 32 characters of [0-9a-f], and the fields of
\* /prefixed-ids are "enc_", "token_", "id_" followed by 32 characters of
\* [0-9a-f], whatever the random draws were.
C21_RandomStringShapes ==
    /\ Cardinality(NanoSet) = 64
    /\ NanoSet = {UpperChars[i] : i \in 1..26} \cup {LowerChars[i] : i \in 1..26}
                     \cup DigitSet \cup {"_", "-"}
    /\ fixture.resp.route = "/random-ids" => IsString(fixture.resp.body.nano_id, 21, NanoSet)
    /\ fixture.resp.route = "/all-noisy" =>
           /\ IsString(fixture.resp.body.nano_id, 21, NanoSet)
           /\ IsString(fixture.resp.body.sha256, 64, HexSet)
           /\ IsPrefixedHex(fixture.resp.body.prefixed_id, EncPrefix)
    /\ fixture.resp.route = "/hashes" =>
           /\ IsString(fixture.resp.body.sha256_hash, 64, HexSet)
           /\ IsString(fixture.resp.body.session_token, 32, HexSet)
    /\ fixture.resp.route = "/prefixed-ids" =>
           /\ IsPrefixedHex(fixture.resp.body.encryption_key, <<"e", "n", "c", "_">>)
           /\ IsPrefixedHex(fixture.resp.body.token_id, <<"t", "o", "k", "e", "n", "_">>)
           /\ IsPrefixedHex(fixture.resp.body.user_id, <<"i", "d", "_">>)
\* /prefixed-ids answered from varying draws, /hashes from the highest draws
C21_Witness ==
    /\ fixture.resp.route = "/prefixed-ids"
    /\ fixture.resp.body.token_id[7] # fixture.resp.body.token_id[8]
    /\ fixture.resp.body.token_id # TokenPrefix \o SubSeq(fixture.resp.body.user_id, 4, 35)
    /\ "/hashes" \in DOMAIN fixture.first
    /\ fixture.first["/hashes"].body.session_token[32] = "f"

ZuluZone == <<"Z">>
GmtZone == <<"G", "M", "T">>
IsStoreRecordResp ==
    /\ lastResp.status \in {200, 201}
    /\ lastResp.req.route \in {"/users", "/users/", "/orders", "/orders/"}

\* the store server's serverTimestamp carries the UTC designator
C22_StoreTimestampIsZulu == IsStoreRecordResp => lastResp.body.serverTimestamp.zone = "Z"
\* C22 as claimed: in every zone the process may run in, the RFC3339
\* timestamps of both servers end in the designator Z, and the RFC1123
\* timestamps of /timestamps (field and Date header) end in GMT.
C22_TimestampsAreUtc ==
    /\ C22_StoreTimestampIsZulu
    /\ fixture.resp.route = "/timestamps" =>
           /\ fixture.resp.body.rfc3339.zone = ZuluZone
           /\ fixture.resp.body.rfc1123.zone = GmtZone
           /\ fixture.resp.headers["Date"].zone = GmtZone
    /\ fixture.resp.route \in {"/nested"} => fixture.resp.body.data.created_at.zone = ZuluZone
    /\ fixture.resp.route \in {"/mixed"} => fixture.resp.body.created_at.zone = ZuluZone
    /\ fixture.resp.route = "/plain-timestamp" => fixture.resp.body.text.zone = ZuluZone

\* the fields a GET assigns on its record
RegeneratedFields == {"sessionId", "uuidV4", "ulidId", "ksuidId", "parsedTimestamp",
                      "requestId", "processingTimeMs", "serverTimestamp"}

\* C23 as claimed: after a GET that hits key k, the record stored under k
\* carries the noisy values the GET returned, its stable fields as before.
C23_GetMutatesInPlace ==
    /\ IsGetHit("/users/") =>
           \A f \in RegeneratedFields :
               userStore[lastResp.req.arg][f] = lastResp.body[f]
    /\ IsGetHit("/orders/") =>
           \A f \in RegeneratedFields :
               orderStore[lastResp.req.arg][f] = lastResp.body[f]

\* C23 as amended: a GET regenerates the noisy fields on its own copy.  Every
\* stored record stays the record its POST inserted and returned; after a GET
\* hit the stored record's sessionId, uuidV4, ksuidId and requestId are not
\* those the GET returned, and the fields the GET does not assign are equal in
\* both.
C23_GetWorksOnCopy ==
    /\ \A k \in DOMAIN userStore \cap DOMAIN created : userStore[k] = created[k].resp
    /\ \A k \in DOMAIN orderStore \cap DOMAIN created : orderStore[k] = created[k].resp
    /\ IsGetHit("/users/") =>
           LET stored == userStore[lastResp.req.arg]
           IN /\ \A f \in FreshIdFields : stored[f] # lastResp.body[f]
              /\ \A f \in DOMAIN stored \ RegeneratedFields : stored[f] = lastResp.body[f]
    /\ IsGetHit("/orders/") =>
           LET stored == orderStore[lastResp.req.arg]
           IN /\ \A f \in FreshIdFields : stored[f] # lastResp.body[f]
              /\ \A f \in DOMAIN stored \ RegeneratedFields : stored[f] = lastResp.body[f]
\* a user read back after its 201, at a later clock reading than its creation
C23_Witness ==
    /\ GetHitAfterCreate("/users/")
    /\ userStore[lastResp.req.arg] = created[lastResp.req.arg].resp
    /\ userStore[lastResp.req.arg].ulidId # lastResp.body.ulidId
    /\ userStore[lastResp.req.arg].name = lastResp.body.name

\* the keys with numbers 1..n
KeysUpTo(pre, n) == {pre \o Sprintf08d(i) : i \in 1..n}
\* POST handlers of the route that are in flight, and those among them that
\* are at one of the steps
InFlight(route) == {p \in Procs : pc[p] > 0 /\ req[p].route = route}
InFlightAt(route, steps) == {p \in InFlight(route) : Steps(route)[pc[p]] \in steps}
\* requests that passed their checks so far: those that were given a key and
\* those on their way to being given one
Validated(route, pre) ==
    Len(AllocsOf(pre)) + Cardinality(InFlightAt(route, {"genLock", "genReturn"}))
\* requests that have incremented the counter so far
Incremented(route, pre) == Len(AllocsOf(pre)) + Cardinality(InFlightAt(route, {"genReturn"}))

C24_KeysWithinCounter(store, counter, route, pre) ==
    /\ DOMAIN store \subseteq KeysUpTo(pre, counter)
    /\ Cardinality(DOMAIN store) <= counter
    /\ InFlight(route) = {} => DOMAIN store = KeysUpTo(pre, counter)

\* C24 as claimed: the keys of each map are among the first counter-many
\* keys, exactly those when no POST of the kind is in flight, and each counter
\* equals the number of POSTs of its kind that have passed their checks.
C24_CounterIsValidatedCount ==
    /\ C24_KeysWithinCounter(userStore, accountCounter, "/users", AccPrefix)
    /\ C24_KeysWithinCounter(orderStore, orderCounter, "/orders", OrdPrefix)
    /\ accountCounter = Validated("/users", AccPrefix)
    /\ orderCounter = Validated("/orders", OrdPrefix)

\* C24 as amended: the same for the keys; each counter equals the number of
\* POSTs of its kind that have made their increment, which is the number that
\* have passed their checks less those still waiting for the mutex in the
\* generator, and equals it when none is in flight.
C24_CounterIsIncrementCount ==
    /\ C24_KeysWithinCounter(userStore, accountCounter, "/users", AccPrefix)
    /\ C24_KeysWithinCounter(orderStore, orderCounter, "/orders", OrdPrefix)
    /\ accountCounter = Incremented("/users", AccPrefix)
    /\ orderCounter = Incremented("/orders", OrdPrefix)
    /\ accountCounter =
           Validated("/users", AccPrefix) - Cardinality(InFlightAt("/users", {"genLock"}))
    /\ orderCounter =
           Validated("/orders", OrdPrefix) - Cardinality(InFlightAt("/orders", {"genLock"}))
    /\ InFlight("/users") = {} => accountCounter = Validated("/users", AccPrefix)
    /\ InFlight("/orders") = {} => orderCounter = Validated("/orders", OrdPrefix)
\* one user is stored, a second POST /users has passed its checks and waits
\* for the mutex, which the first POST's successor holds for its increment
C24_Witness ==
    /\ Cardinality(DOMAIN userStore) = 1
    /\ accountCounter = 2
    /\ InFlightAt("/users", {"genLock"}) # {}
    /\ InFlightAt("/users", {"genReturn"}) # {}

\* after is before with one record more, under a key that was absent
GrewByOne(before, after) ==
    /\ DOMAIN before \subseteq DOMAIN after
    /\ Cardinality(DOMAIN after) = Cardinality(DOMAIN before) + 1
    /\ \A k \in DOMAIN before : after[k] = before[k]

\* C25: the maps only grow and inserts never overwrite.  Every step leaves
\* each map as it is or adds one record under a key that was not in the map,
\* keeping every other record; no step removes a key.
C25_MapsOnlyGrow ==
    [][/\ userStore' # userStore => GrewByOne(userStore, userStore')
       /\ orderStore' # orderStore => GrewByOne(orderStore, orderStore')
       /\ DOMAIN userStore \subseteq DOMAIN userStore'
       /\ DOMAIN orderStore \subseteq DOMAIN orderStore']_vars
\* a second order has just been inserted next to the first
C25_Witness ==
    /\ Cardinality(DOMAIN orderStore) = 2
    /\ \E p \in Procs : At(p, "/orders", "unlock") /\ storeMutex.writer = p

\* C26: fields a GET does not regenerate come back as created.  In every GET
\* hit of a key whose 201 was written, userId and createdAt (orderId,
\* createdAt and transactionHash for an order), like every other field the GET
\* does not assign, equal the values of that 201 response.
C26_UnregeneratedFieldsKept ==
    /\ GetHitAfterCreate("/users/") =>
           LET c == created[lastResp.req.arg].resp
           IN /\ lastResp.body.userId = c.userId
              /\ lastResp.body.createdAt = c.createdAt
              /\ \A f \in DOMAIN c \ RegeneratedFields : lastResp.body[f] = c[f]
    /\ GetHitAfterCreate("/orders/") =>
           LET c == created[lastResp.req.arg].resp
           IN /\ lastResp.body.orderId = c.orderId
              /\ lastResp.body.createdAt = c.createdAt
              /\ lastResp.body.transactionHash = c.transactionHash
              /\ \A f \in DOMAIN c \ RegeneratedFields : lastResp.body[f] = c[f]
\* an order read back at a later clock reading than its creation
C26_Witness ==
    /\ GetHitAfterCreate("/orders/")
    /\ lastResp.body.ulidId.ms > created[lastResp.req.arg].resp.ulidId.ms
    /\ lastResp.body.sessionId # created[lastResp.req.arg].resp.sessionId

StepOf(p) == Steps(req[p].route)[pc[p]]
WaitsForLock(p) == pc[p] > 0 /\ StepOf(p) \in {"genLock", "insert"}
WaitsForRLock(p) == pc[p] > 0 /\ StepOf(p) \in {"lookup", "check"}
Blocked(p) ==
    \/ WaitsForLock(p) /\ ~CanLock(storeMutex)
    \/ WaitsForRLock(p) /\ ~CanRLock(storeMutex)

\* a handler about to acquire holds the mutex in no mode; the mutex is held
\* only by handlers in flight, between an acquisition and its release; and
\* while requests are in flight one of them can take its next step
C27_NoDeadlock ==
    /\ \A p \in Procs :
           /\ (WaitsForLock(p) \/ WaitsForRLock(p)) => ~HoldsLock(storeMutex, p)
           /\ storeMutex.writer = p => pc[p] > 0 /\ StepOf(p) \in {"genReturn", "unlock"}
           /\ p \in storeMutex.readers => pc[p] > 0 /\ StepOf(p) \in {"found", "checked"}
           /\ pc[p] = 0 => ~HoldsLock(storeMutex, p)
    /\ storeMutex.writer \in Procs \cup {0}
    /\ storeMutex.readers \subseteq Procs
    /\ (\E p \in Procs : pc[p] > 0) => \E p \in Procs : pc[p] > 0 /\ ~Blocked(p)
\* a handler in flight writes nothing until the step on which it returns, and
\* that step writes the one response to its request
C27_OneResponse ==
    \A p \in Procs :
        Stepped(p) =>
            IF pc'[p] = 0
            THEN lastResp'.status # 0 /\ lastResp'.req = req[p]
            ELSE lastResp' = NoResp
\* C27: deadlock freedom and termination.  Acquisitions of storeMutex are
\* never nested and are released on every path, no reachable state has all
\* requests in flight blocked, and under fair scheduling every request in
\* flight is answered, once: each handler is idle again and again, which for
\* pc[p] >= 0 says the same as (pc[p] > 0) ~> (pc[p] = 0).
C27_DeadlockFreeAndTerminating ==
    /\ []C27_NoDeadlock
    /\ [][C27_OneResponse]_vars
    /\ \A p \in Procs : []<>(pc[p] = 0)
\* a POST waits for the mutex for its insert while the other handler holds it
C27_Witness ==
    \E p, q \in Procs :
        /\ At(p, "/users", "insert")
        /\ Blocked(p)
        /\ q \in storeMutex.readers
        /\ At(q, "/orders", "checked")


SnowflakeOffset(now) == Sub64(NowUnixMilli(now), SnowflakeEpoch)
FitsOffsetBits(d) == ~IsNeg64(d) /\ LtU64(d, <<0, 0, 512, 0>>)
\* v & 4095, (v >> 12) & 31, (v >> 17) & 31 and v >> 22
SnowflakeFields(v) ==
    LET low == DivModSmall64(v, 4096)
        mid == DivModSmall64(low.q, 32)
        high == DivModSmall64(mid.q, 32)
    IN [sequence |-> low.r, worker |-> mid.r, datacenter |-> high.r, offset |-> high.q]

\* C29: the Snowflake bit fields never overlap.  For an offset d with
\* 0 <= d < 2^41 the number the ID prints is the sum of d * 2^22,
\* datacenter * 2^17, worker * 2^12 and sequence, and the four are read back
\* from it by shifting and masking, whichever draws made the ID.
C29_SnowflakeFieldsDisjoint ==
    LET d == SnowflakeOffset(idProbe.now)
    IN (idProbe.snowflake # EmptyStr /\ FitsOffsetBits(d)) =>
           /\ \E sequence \in SequenceDraws, worker \in NodeDraws, datacenter \in NodeDraws :
                  idProbe.snowflake =
                      generateSnowflakeID(idProbe.now, sequence, worker, datacenter)
           /\ \A sequence \in SequenceDraws, worker \in NodeDraws, datacenter \in NodeDraws :
                  idProbe.snowflake =
                      generateSnowflakeID(idProbe.now, sequence, worker, datacenter)
                  => LET v == ParseDecimal64(idProbe.snowflake)
                     IN /\ v = Add64(Add64(Add64(Shl64(d, 22),
                                                 Shl64(Small64(datacenter), 17)),
                                           Shl64(Small64(worker), 12)),
                                     Small64(sequence))
                        /\ SnowflakeFields(v) =
                               [sequence |-> sequence, worker |-> worker,
                                datacenter |-> datacenter, offset |-> d]
\* the offset 2^41 - 1 with the largest draws: every bit below the sign is set
C29_Witness ==
    /\ FitsOffsetBits(SnowflakeOffset(idProbe.now))
    /\ idProbe.snowflake = <<"9", "2", "2", "3", "3", "7", "2", "0", "3", "6", "8", "5",
                             "4", "7", "7", "5", "8", "0", "7">>

=============================================================================
